---- MODULE Spec2Model ----
(***************************************************************************)
(* Model of rsvc.py (maubot/rsvc): the per-room batch of federation tests, *)
(* the single-flight marker tests_in_progress, the cache of Results and    *)
(* the single-server retest, as coroutines on one asyncio event loop.      *)
(*                                                                         *)
(* A coroutine runs from one suspension point to the next without          *)
(* interleaving.  `ready` is the loop's FIFO queue of runnable coroutines; *)
(* a step that resumes a coroutine takes the head of `ready`.  Network     *)
(* I/O (replies, edits, member loading, probes) completes at any time and  *)
(* with any outcome.  Where the code that follows an I/O completion only   *)
(* starts the next I/O or ends the coroutine, the completion and that code *)
(* are one action; where it reads or writes shared state (caches, the      *)
(* marker, a Results object, its lock) the coroutine is queued on `ready`  *)
(* and the code is a separate action.                                      *)
(***************************************************************************)
EXTENDS Naturals, Sequences, FiniteSets, TLC

\* Number of requests (command invocations) in a run.
MaxReq == 3

Reqs == 1..MaxReq
Rooms == {"r1", "r2"}
Servers == {"s1", "s2"}

\* None of an optional task / Results reference / event id.
NoRef == 0

----------------------------------------------------------------------------
\* Strings

\* The characters of ASCII that a text of the model can hold, in code point
\* order (a string of TLA+ cannot hold the grave accent).
Alphabet ==
    "\t\n\f\r !\"#$%&'()*+,-./0123456789:;<=>?@ABCDEFGHIJKLMNOPQRSTUVWXYZ[\\]^_"
        \o "abcdefghijklmnopqrstuvwxyz{|}~"
UpperCase == "ABCDEFGHIJKLMNOPQRSTUVWXYZ"
LowerCase == "abcdefghijklmnopqrstuvwxyz"
Digits == "0123456789"

Char(s, k) == SubSeq(s, k, k)
Contains(s, c) == \E k \in 1..Len(s) : Char(s, k) = c
IndexOf(s, c) == CHOOSE k \in 1..Len(s) : Char(s, k) = c

\* Whether the text p is in s at position k.
StartsAt(s, k, p) == k + Len(p) - 1 <= Len(s) /\ SubSeq(s, k, k + Len(p) - 1) = p

\* The first position of s from k on that holds no character of cs, and the
\* first one that holds a character of cs; Len(s) + 1 when there is none.
RECURSIVE SkipAll(_, _, _)
SkipAll(s, k, cs) ==
    IF k <= Len(s) /\ Contains(cs, Char(s, k)) THEN SkipAll(s, k + 1, cs) ELSE k

RECURSIVE SkipNone(_, _, _)
SkipNone(s, k, cs) ==
    IF k <= Len(s) /\ ~Contains(cs, Char(s, k)) THEN SkipNone(s, k + 1, cs) ELSE k

\* The characters a regular expression takes as `\s`, `[-_\.]` and
\* `[0-9a-zA-Z-]`.
Whitespace == " \t\n\r\f"
Separators == "-_."
SemverChars == Digits \o UpperCase \o LowerCase \o "-"

\* str.lower()
LowerChar(c) ==
    IF Contains(UpperCase, c) THEN Char(LowerCase, IndexOf(UpperCase, c)) ELSE c

RECURSIVE Lower(_)
Lower(s) == IF s = "" THEN "" ELSE LowerChar(Head(s)) \o Lower(Tail(s))

\* `<` of two str: by the code points of the first characters that differ.
RECURSIVE StrLt(_, _)
StrLt(a, b) ==
    IF b = "" THEN FALSE
    ELSE IF a = "" THEN TRUE
    ELSE IF Head(a) = Head(b) THEN StrLt(Tail(a), Tail(b))
    ELSE IndexOf(Alphabet, Head(a)) < IndexOf(Alphabet, Head(b))

\* str.split(sep) for a separator of one character.
RECURSIVE Split(_, _)
Split(s, sep) ==
    IF ~Contains(s, sep) THEN << s >>
    ELSE LET k == CHOOSE x \in 1..Len(s) :
                      Char(s, x) = sep /\ \A j \in 1..(x - 1) : Char(s, j) /= sep
         IN << SubSeq(s, 1, k - 1) >> \o Split(SubSeq(s, k + 1, Len(s)), sep)

IsNumber(s) == s /= "" /\ \A k \in 1..Len(s) : Contains(Digits, Char(s, k))

\* int(s) of a string of digits, acc being the value of the digits read.
RECURSIVE ToNat(_, _)
ToNat(s, acc) ==
    IF s = "" THEN acc
    ELSE ToNat(Tail(s), acc * 10 + (IndexOf(Digits, Head(s)) - 1))

\* sep.join(parts)
RECURSIVE Join(_, _)
Join(parts, sep) ==
    IF parts = << >> THEN ""
    ELSE IF Len(parts) = 1 THEN parts[1]
    ELSE parts[1] \o sep \o Join(Tail(parts), sep)

\* [F(x) for x in seq]
Map(seq, F(_)) == [k \in 1..Len(seq) |-> F(seq[k])]

----------------------------------------------------------------------------
\* Versions and ServerInfo.parse

\* An identifier of a pre-release, local or build part: a number or a text.
Num(n) == [num |-> TRUE, n |-> n, s |-> ""]
Str(s) == [num |-> FALSE, n |-> 0, s |-> s]

\* A version value.  Of packaging.version (scheme pep440): epoch, release
\* numbers, pre-release << letter, number >>, post and dev number (<< >> when
\* the version has none) and the identifiers of the local part.  Of semver
\* (scheme semver): release << major, minor, patch >>, the identifiers of the
\* prerelease in pre and those of the build in local.  For other software
\* (scheme str) the str itself, in text.
NoVersion ==
    [ scheme |-> "none", epoch |-> 0, release |-> << >>, pre |-> << >>,
      post |-> << >>, dev |-> << >>, local |-> << >>, text |-> "" ]
NoneInfo == [software |-> "None", version |-> NoVersion]

\* What a parser gives: a value, or ValueError (packaging's InvalidVersion
\* and the ValueError of semver).
ParsedAs(version) == [kind |-> "ok", version |-> version]
ValueError == [kind |-> "ValueError", version |-> NoVersion]

\* The numbers of the dotted text s.
Numbers(s) == Map(Split(s, "."), LAMBDA seg : ToNat(seg, 0))

\* packaging's VERSION_PATTERN, part by part, on the lower-cased text t from
\* position k on (the pattern is matched ignoring case).

\* `(?:(?P<epoch>[0-9]+)!)?`, the digits at k ending before e.
EpochUpTo(t, k, e) ==
    IF e > k /\ StartsAt(t, e, "!")
    THEN [pos |-> e + 1, epoch |-> ToNat(SubSeq(t, k, e - 1), 0)]
    ELSE [pos |-> k, epoch |-> 0]

EpochPart(t, k) == EpochUpTo(t, k, SkipAll(t, k, Digits))

\* `[0-9]+(?:\.[0-9]+)*`: the position after the release that starts at k;
\* k itself when no digit is there.  e is where the digits at k end.
RECURSIVE ReleaseEnd(_, _)
ReleaseFrom(t, k, e) ==
    IF e > k /\ StartsAt(t, e, ".") /\ SkipAll(t, e + 1, Digits) > e + 1
    THEN ReleaseEnd(t, e + 1)
    ELSE e

ReleaseEnd(t, k) == ReleaseFrom(t, k, SkipAll(t, k, Digits))

\* A part that matched up to position p: its word and its number, as << >>
\* or << n >>.
Part(p, word, n) == [pos |-> p, word |-> word, n |-> n]

\* The ways `[-_\.]?([0-9]+)?` can match behind a word that ends before a,
\* where sep says that a separator stands at a and the digits from d on end
\* before e: with the number, with the separator alone, with neither.
TaggedWays(t, word, a, sep, d, e) ==
    (IF e > d THEN << Part(e, word, << ToNat(SubSeq(t, d, e - 1), 0) >>) >> ELSE << >>)
        \o (IF sep THEN << Part(a + 1, word, << >>) >> ELSE << >>)
        \o << Part(a, word, << >>) >>

TaggedNumber(t, word, a, sep, d) == TaggedWays(t, word, a, sep, d, SkipAll(t, d, Digits))

TaggedWord(t, word, a, sep) == TaggedNumber(t, word, a, sep, IF sep THEN a + 1 ELSE a)

TaggedFound(t, s, found) ==
    IF found = << >> THEN << >>
    ELSE TaggedWord(t, Head(found), s + Len(Head(found)),
                    SkipAll(t, s + Len(Head(found)), Separators) > s + Len(Head(found)))

TaggedAt(t, s, words) == TaggedFound(t, s, SelectSeq(words, LAMBDA w : StartsAt(t, s, w)))

\* `[-_\.]?(word)[-_\.]?([0-9]+)?` for the first of `words` found at k: the
\* ways it can match, in the order the regular expression tries them, each
\* with the position after it and the number as << >> or << n >>.
Tagged(t, k, words) ==
    TaggedAt(t, IF SkipAll(t, k, Separators) > k THEN k + 1 ELSE k, words)

\* An optional part that is absent.
Absent(k) == Part(k, "", << >>)

\* `(?P<pre>...)?`
PrePart(t, k) ==
    Tagged(t, k, << "alpha", "a", "beta", "b", "preview", "pre", "c", "rc" >>)
        \o << Absent(k) >>

\* `(?P<post>(?:-(?P<post_n1>[0-9]+))|(?:[-_\.]?(?P<post_l>post|rev|r)...))?`,
\* the digits at k + 1 ending before e.
PostUpTo(t, k, e) ==
    (IF StartsAt(t, k, "-") /\ e > k + 1
     THEN << Part(e, "post", << ToNat(SubSeq(t, k + 1, e - 1), 0) >>) >>
     ELSE << >>)
    \o Tagged(t, k, << "post", "rev", "r" >>)
    \o << Absent(k) >>

PostPart(t, k) == PostUpTo(t, k, SkipAll(t, k + 1, Digits))

\* `(?P<dev>...)?`
DevPart(t, k) == Tagged(t, k, << "dev" >>) \o << Absent(k) >>

\* `[a-z0-9]+(?:[-_\.][a-z0-9]+)*`: the position after the identifiers that
\* start at k; k itself when none is there.  e is where the characters at k
\* end.
RECURSIVE IdentifiersEnd(_, _, _, _)
IdentifiersFrom(t, k, e, chars, seps) ==
    IF e > k /\ SkipAll(t, e, seps) > e /\ SkipAll(t, e + 1, chars) > e + 1
    THEN IdentifiersEnd(t, e + 1, chars, seps)
    ELSE e

IdentifiersEnd(t, k, chars, seps) == IdentifiersFrom(t, k, SkipAll(t, k, chars), chars, seps)

\* The identifiers of s, which `seps` separate; e is the position of the
\* first separator.
RECURSIVE Identifiers(_, _)
IdentifiersUpTo(s, e, seps) ==
    IF e > Len(s) THEN << s >>
    ELSE << SubSeq(s, 1, e - 1) >> \o Identifiers(SubSeq(s, e + 1, Len(s)), seps)

Identifiers(s, seps) == IdentifiersUpTo(s, SkipNone(s, 1, seps), seps)

\* _parse_local_version: a number for an identifier of digits.
LocalPart(s) ==
    Map(Identifiers(s, Separators),
        LAMBDA id : IF IsNumber(id) THEN Num(ToNat(id, 0)) ELSE Str(id))

\* `(?:\+(?P<local>...))?\s*$` from k on: whether it matches, and the local
\* part; e is where the identifiers at k + 1 end.
LocalUpTo(t, k, e) ==
    IF StartsAt(t, k, "+") THEN
        [ ok |-> e > k + 1 /\ SkipAll(t, e, Whitespace) > Len(t),
          local |-> IF e > k + 1 THEN LocalPart(SubSeq(t, k + 1, e - 1)) ELSE << >> ]
    ELSE [ok |-> SkipAll(t, k, Whitespace) > Len(t), local |-> << >>]

LocalToEnd(t, k) == LocalUpTo(t, k, IdentifiersEnd(t, k + 1, LowerCase \o Digits, Separators))

\* _parse_letter_version: the normal form of the word of a pre-release.
PreLetter(word) ==
    IF word = "alpha" THEN "a"
    ELSE IF word = "beta" THEN "b"
    ELSE IF word \in {"c", "pre", "preview"} THEN "rc"
    ELSE word

\* _parse_letter_version: the number of a part that is there is 0 when it
\* is not written.
PartNumber(part) ==
    IF part.word = "" THEN << >> ELSE IF part.n = << >> THEN << 0 >> ELSE part.n

RECURSIVE Flatten(_)
Flatten(ss) == IF ss = << >> THEN << >> ELSE Head(ss) \o Flatten(Tail(ss))

\* The ways the optional pre, post and dev parts can match from position r
\* on, in the order the regular expression tries them: each part first as
\* long as it can be, then shorter, then absent.
WaysAfterPost(t, pre, post) ==
    Map(DevPart(t, post.pos), LAMBDA dev : [pre |-> pre, post |-> post, dev |-> dev])

WaysAfterPre(t, pre) ==
    Flatten(Map(PostPart(t, pre.pos), LAMBDA post : WaysAfterPost(t, pre, post)))

Ways(t, r) == Flatten(Map(PrePart(t, r), LAMBDA pre : WaysAfterPre(t, pre)))

\* Version.__init__: the value of the text t whose epoch is ep, whose release
\* ends before r and whose other parts matched as m.
MatchedVersion(t, ep, r, m) ==
    [ scheme |-> "pep440",
      epoch |-> ep.epoch,
      release |-> Numbers(SubSeq(t, ep.pos, r - 1)),
      pre |-> IF m.pre.word = "" THEN << >>
              ELSE << Str(PreLetter(m.pre.word)), Num(PartNumber(m.pre)[1]) >>,
      post |-> PartNumber(m.post),
      dev |-> PartNumber(m.dev),
      local |-> LocalToEnd(t, m.dev.pos).local,
      text |-> "" ]

\* The first of the ways after which the rest of t matches, if there is a
\* release and such a way.
FirstMatch(t, ep, r, matching) ==
    IF r = ep.pos \/ matching = << >> THEN ValueError
    ELSE ParsedAs(MatchedVersion(t, ep, r, Head(matching)))

FromRelease(t, ep, r) ==
    FirstMatch(t, ep, r, SelectSeq(Ways(t, r), LAMBDA w : LocalToEnd(t, w.dev.pos).ok))

FromEpoch(t, ep) == FromRelease(t, ep, ReleaseEnd(t, ep.pos))

\* `^\s*v?` has matched up to position v of t.
FromStart(t, v) == FromEpoch(t, EpochPart(t, IF StartsAt(t, v, "v") THEN v + 1 ELSE v))

\* packaging.version.parse: Version(t), InvalidVersion when the pattern does
\* not match the whole of t (the pattern is matched ignoring case).
PackagingParse(text) == FromStart(Lower(text), SkipAll(Lower(text), 1, Whitespace))

\* An identifier of a semver prerelease: `0|[1-9]\d*|\d*[a-zA-Z-][0-9a-zA-Z-]*`.
IsPrereleaseId(s) ==
    /\ s /= ""
    /\ SkipAll(s, 1, SemverChars) > Len(s)
    /\ IsNumber(s) => (s = "0" \/ Head(s) /= "0")

\* `0|[1-9]\d*`
IsSemverNumber(s) == IsNumber(s) /\ (s = "0" \/ Head(s) /= "0")

\* The identifiers ids of a prerelease or a build as values.
PrereleaseIds(ids) ==
    Map(ids, LAMBDA id : IF IsNumber(id) THEN Num(ToNat(id, 0)) ELSE Str(id))

BuildIds(ids) == Map(ids, LAMBDA id : Str(id))

IsBuildId(s) == s /= "" /\ SkipAll(s, 1, SemverChars) > Len(s)

\* The text t, whose major, minor and patch digits end before a, b and c and
\* whose first `+` from c on is at plus, with the identifiers after `-` and
\* after `+`.
SemverMatched(t, a, b, c, plus, pre_ids, build_ids) ==
    IF /\ StartsAt(t, a, ".") /\ StartsAt(t, b, ".")
       /\ IsSemverNumber(SubSeq(t, 1, a - 1))
       /\ IsSemverNumber(SubSeq(t, a + 1, b - 1))
       /\ IsSemverNumber(SubSeq(t, b + 1, c - 1))
       /\ (c > Len(t) \/ StartsAt(t, c, "-") \/ StartsAt(t, c, "+"))
       /\ StartsAt(t, c, "-") => \A k \in 1..Len(pre_ids) : IsPrereleaseId(pre_ids[k])
       /\ plus <= Len(t) => \A k \in 1..Len(build_ids) : IsBuildId(build_ids[k])
    THEN ParsedAs(
        [ scheme |-> "semver",
          epoch |-> 0,
          release |-> << ToNat(SubSeq(t, 1, a - 1), 0), ToNat(SubSeq(t, a + 1, b - 1), 0),
                         ToNat(SubSeq(t, b + 1, c - 1), 0) >>,
          pre |-> IF StartsAt(t, c, "-") THEN PrereleaseIds(pre_ids) ELSE << >>,
          post |-> << >>,
          dev |-> << >>,
          local |-> IF plus <= Len(t) THEN BuildIds(build_ids) ELSE << >>,
          text |-> "" ])
    ELSE ValueError

SemverParts(t, a, b, c, plus) ==
    SemverMatched(t, a, b, c, plus,
                  Identifiers(IF StartsAt(t, c, "-") THEN SubSeq(t, c + 1, plus - 1) ELSE "", "."),
                  Identifiers(SubSeq(t, plus + 1, Len(t)), "."))

SemverPatch(t, a, b, c) == SemverParts(t, a, b, c, SkipNone(t, c, "+"))

SemverMinor(t, a, b) == SemverPatch(t, a, b, SkipAll(t, b + 1, Digits))

SemverMajor(t, a) == SemverMinor(t, a, SkipAll(t, a + 1, Digits))

\* semver.VersionInfo.parse: MAJOR.MINOR.PATCH[-prerelease][+build] (`$` also
\* matches before a newline that ends the text); ValueError for any other
\* text.
SemverParse(text) ==
    IF text /= "" /\ Char(text, Len(text)) = "\n"
    THEN SemverMajor(SubSeq(text, 1, Len(text) - 1),
                     SkipAll(SubSeq(text, 1, Len(text) - 1), 1, Digits))
    ELSE SemverMajor(text, SkipAll(text, 1, Digits))

\* ServerInfo(software, version) from the result of a version parser.
WithSoftware(software, parsed) ==
    [ kind |-> parsed.kind,
      info |-> IF parsed.kind = "ok"
               THEN [software |-> software, version |-> parsed.version]
               ELSE NoneInfo ]

\* The software name taken as it is written.
AsWritten(software) == software

\* line 131: `software.lower()`, by which the parser is chosen.
Lowered(software) == Lower(software)

\* ServerInfo.parse (lines 129-144).
ServerInfoParse(software, version) ==
    LET software_lower == Lowered(software) IN
    IF software_lower = "synapse" THEN
        WithSoftware("Synapse", PackagingParse(Split(version, " ")[1]))
    ELSE IF software_lower = "dendrite" THEN
        WithSoftware("Dendrite", SemverParse(version))
    ELSE IF software_lower = "conduit" THEN
        WithSoftware("Conduit", SemverParse(version))
    ELSE IF software_lower = "catalyst" THEN
        WithSoftware("Catalyst", SemverParse(version))
    ELSE
        [ kind |-> "ok",
          info |-> [ software |-> software,
                     version |-> [NoVersion EXCEPT !.scheme = "str", !.text = version] ] ]

\* str(version) and ServerInfo.__str__ (lines 162-163).
RECURSIVE NatStrings(_)
NatStrings(ns) ==
    IF ns = << >> THEN << >> ELSE << ToString(Head(ns)) >> \o NatStrings(Tail(ns))

\* The identifiers ids as texts.
IdStrings(ids) ==
    [k \in 1..Len(ids) |-> IF ids[k].num THEN ToString(ids[k].n) ELSE ids[k].s]

\* Version.__str__ of packaging, VersionInfo.__str__ of semver.
VersionStr(v) ==
    IF v.scheme = "str" THEN v.text
    ELSE IF v.scheme = "semver" THEN
        Join(NatStrings(v.release), ".")
            \o (IF v.pre = << >> THEN "" ELSE "-" \o Join(IdStrings(v.pre), "."))
            \o (IF v.local = << >> THEN "" ELSE "+" \o Join(IdStrings(v.local), "."))
    ELSE
        (IF v.epoch /= 0 THEN ToString(v.epoch) \o "!" ELSE "")
            \o Join(NatStrings(v.release), ".")
            \o Join(IdStrings(v.pre), "")
            \o (IF v.post = << >> THEN "" ELSE ".post" \o ToString(v.post[1]))
            \o (IF v.dev = << >> THEN "" ELSE ".dev" \o ToString(v.dev[1]))
            \o (IF v.local = << >> THEN "" ELSE "+" \o Join(IdStrings(v.local), "."))

InfoStr(info) == info.software \o " " \o VersionStr(info.version)

\* `<` of two tuples of numbers.
RECURSIVE SeqLt(_, _)
SeqLt(a, b) ==
    IF b = << >> THEN FALSE
    ELSE IF a = << >> THEN TRUE
    ELSE IF Head(a) = Head(b) THEN SeqLt(Tail(a), Tail(b))
    ELSE Head(a) < Head(b)

\* The release without its trailing zeros, as packaging compares it.
RECURSIVE StripZeros(_)
StripZeros(r) ==
    IF r /= << >> /\ r[Len(r)] = 0 THEN StripZeros(SubSeq(r, 1, Len(r) - 1)) ELSE r

\* `<` of two identifiers: numbers by value and texts by code points; a
\* number is before a text when numbers_first (semver's prerelease) and
\* after it otherwise (packaging's local part).
IdLt(x, y, numbers_first) ==
    IF x.num /\ y.num THEN x.n < y.n
    ELSE IF ~x.num /\ ~y.num THEN StrLt(x.s, y.s)
    ELSE x.num = numbers_first

\* `<` of two tuples of identifiers, a proper prefix being the lesser.
RECURSIVE IdsLt(_, _, _)
IdsLt(a, b, numbers_first) ==
    IF b = << >> THEN FALSE
    ELSE IF a = << >> THEN TRUE
    ELSE IF Head(a) = Head(b) THEN IdsLt(Tail(a), Tail(b), numbers_first)
    ELSE IdLt(Head(a), Head(b), numbers_first)

\* _cmpkey of packaging: the key by which Version compares and hashes.  Each
\* part has a rank (0 for NegativeInfinity, 1 for a value, 2 for Infinity)
\* and its value.
CmpKey(v) ==
    [ epoch |-> v.epoch,
      release |-> StripZeros(v.release),
      pre |-> IF v.pre = << >> /\ v.post = << >> /\ v.dev /= << >> THEN [rank |-> 0, ids |-> << >>]
              ELSE IF v.pre = << >> THEN [rank |-> 2, ids |-> << >>]
              ELSE [rank |-> 1, ids |-> v.pre],
      post |-> IF v.post = << >> THEN [rank |-> 0, n |-> 0] ELSE [rank |-> 1, n |-> v.post[1]],
      dev |-> IF v.dev = << >> THEN [rank |-> 2, n |-> 0] ELSE [rank |-> 1, n |-> v.dev[1]],
      local |-> IF v.local = << >> THEN [rank |-> 0, ids |-> << >>]
                ELSE [rank |-> 1, ids |-> v.local] ]

\* `<` of two keys of packaging, part by part.
CmpKeyLt(x, y) ==
    IF x.epoch /= y.epoch THEN x.epoch < y.epoch
    ELSE IF x.release /= y.release THEN SeqLt(x.release, y.release)
    ELSE IF x.pre /= y.pre THEN
        (x.pre.rank < y.pre.rank
             \/ (x.pre.rank = y.pre.rank /\ IdsLt(x.pre.ids, y.pre.ids, FALSE)))
    ELSE IF x.post /= y.post THEN
        (x.post.rank < y.post.rank \/ (x.post.rank = y.post.rank /\ x.post.n < y.post.n))
    ELSE IF x.dev /= y.dev THEN
        (x.dev.rank < y.dev.rank \/ (x.dev.rank = y.dev.rank /\ x.dev.n < y.dev.n))
    ELSE
        (x.local.rank < y.local.rank
             \/ (x.local.rank = y.local.rank /\ IdsLt(x.local.ids, y.local.ids, FALSE)))

\* VersionInfo.compare of semver: by major, minor and patch, then by the
\* prerelease, a version without one being the greater; the build is not
\* compared.
SemverLt(x, y) ==
    IF x.release /= y.release THEN SeqLt(x.release, y.release)
    ELSE IF x.pre = y.pre THEN FALSE
    ELSE IF x.pre = << >> THEN FALSE
    ELSE IF y.pre = << >> THEN TRUE
    ELSE IdsLt(x.pre, y.pre, TRUE)

\* `==` of two version values of one scheme: str by its characters,
\* packaging by the key (trailing zeros of the release do not count), semver
\* by compare (the build does not count).
VersionValueEq(x, y) ==
    IF x.scheme = "str" THEN x.text = y.text
    ELSE IF x.scheme = "semver" THEN x.release = y.release /\ x.pre = y.pre
    ELSE IF x.scheme = "pep440" THEN CmpKey(x) = CmpKey(y)
    ELSE x = y

\* `<` of two version values of one scheme: str by code points, the others
\* as their library orders them.
VersionValueLt(x, y) ==
    IF x.scheme = "str" THEN StrLt(x.text, y.text)
    ELSE IF x.scheme = "semver" THEN SemverLt(x, y)
    ELSE CmpKeyLt(CmpKey(x), CmpKey(y))

\* Whether two version values are one key of a dict: equal, and of equal
\* hash.  str hashes its characters, packaging its key, and semver the tuple
\* (major, minor, patch, prerelease): the build counts in neither `==` nor
\* the hash, so 0.9.0 and 0.9.0+317b101 are one key.
SameKey(x, y) == x.scheme = y.scheme /\ VersionValueEq(x, y)

----------------------------------------------------------------------------
\* The federation tester's response and _test

\* A JSON object is a function from the keys it has; JSON null is Null.  The
\* items of ConnectionErrors are the sequence of their addresses, those of
\* ConnectionReports the sequence of [addr, Checks, Keys].
Null == [json |-> "null"]
EmptyDict == [k \in {} |-> ""]

\* dict.get(key, default)
Get(d, k, default) == IF k \in DOMAIN d THEN d[k] ELSE default

\* `d.get(key) or {}` for a value that is an object, null or missing.
GetOrEmpty(d, k) ==
    IF k \in DOMAIN d THEN (IF d[k] = Null THEN EmptyDict ELSE d[k]) ELSE EmptyDict

\* lines 246, 251, 276: `addr.startswith("[") or addr.count(":") > 1`
IsIPv6(addr) ==
    \/ addr /= "" /\ Head(addr) = "["
    \/ Cardinality({ k \in 1..Len(addr) : Char(addr, k) = ":" }) > 1

CountIPv6(addrs) == Cardinality({ k \in 1..Len(addrs) : IsIPv6(addrs[k]) })
CountIPv4(addrs) == Cardinality({ k \in 1..Len(addrs) : ~IsIPv6(addrs[k]) })

\* lines 266-273: the error add_err is called with for one connection
\* report; "" when the report passes all three checks.
ReportError(server, data) ==
    LET checks == GetOrEmpty(data, "Checks") IN
    IF ~Get(checks, "MatchingServerName", FALSE) THEN
        "mismatching server name, tested: " \o server \o ", got: "
            \o Get(GetOrEmpty(data, "Keys"), "server_name", "undefined")
    ELSE IF ~Get(checks, "ValidCertificates", FALSE) THEN "invalid TLS certificates"
    ELSE IF ~Get(checks, "AllChecksOK", FALSE) THEN "some checks failed"
    ELSE ""

\* add_err (lines 256-264) over the reports in order: each distinct error
\* with the first address that had it.
RECURSIVE ErrorsWithAddr(_, _, _)
ErrorsWithAddr(server, reports, acc) ==
    IF reports = << >> THEN acc
    ELSE
        LET error == ReportError(server, Head(reports).data) IN
        ErrorsWithAddr(server, Tail(reports),
            IF error = "" \/ \E k \in 1..Len(acc) : acc[k].error = error
            THEN acc
            ELSE Append(acc, [addr |-> Head(reports).addr, error |-> error]))

RECURSIVE AddrErrorTexts(_)
AddrErrorTexts(es) ==
    IF es = << >> THEN << >>
    ELSE << Head(es).addr \o ": " \o Head(es).error >> \o AddrErrorTexts(Tail(es))

\* _parse_error (lines 233-336).
ParseError(server, result) ==
    LET failures == Get(result, "ConnectionErrors", << >>)
        reports == Get(result, "ConnectionReports", << >>)
        addrs == [k \in 1..Len(reports) |-> reports[k].addr]
        passed == SelectSeq(reports, LAMBDA r : ReportError(server, r.data) = "")
        ok_addrs == [k \in 1..Len(passed) |-> passed[k].addr]
        ipv4_failures == CountIPv4(failures)
        ipv6_failures == CountIPv6(failures)
        ipv4_successes == CountIPv4(ok_addrs)
        ipv6_successes == CountIPv6(ok_addrs)
        failed_addresses == Len(reports) - Len(passed)
        errors_with_addr == ErrorsWithAddr(server, reports, << >>)
        total_ipv4 == ipv4_failures + CountIPv4(addrs)
        total_ipv6 == ipv6_failures + CountIPv6(addrs)
        total == total_ipv4 + total_ipv6
        reach ==
            IF ipv4_failures + ipv6_failures = total THEN
                IF total = 1 THEN << "Server couldn't be reached" >>
                ELSE << "Server couldn't be reached on any address" >>
            ELSE
                (IF ipv4_failures > 0 THEN
                     << (IF total_ipv4 > 1
                         THEN ToString(ipv4_failures) \o "/" \o ToString(total_ipv4)
                                  \o " IPv4 addresses"
                         ELSE "IPv4 address") \o " couldn't be reached" >>
                 ELSE << >>)
                \o
                (IF ipv6_failures > 0 THEN
                     << (IF total_ipv6 > 1
                         THEN ToString(ipv6_failures) \o "/" \o ToString(total_ipv6)
                                  \o " IPv6 addresses"
                         ELSE "IPv6 address") \o " couldn't be reached" >>
                 ELSE << >>)
        failed ==
            IF errors_with_addr /= << >> THEN
                << ToString(failed_addresses) \o "/" \o ToString(total) \o " address"
                       \o (IF failed_addresses > 1 THEN "es" ELSE "")
                       \o " failed the test: "
                       \o (IF Len(errors_with_addr) = 1 THEN errors_with_addr[1].error
                           ELSE Join(AddrErrorTexts(errors_with_addr), ", ")) >>
            ELSE << >>
        msgs == reach \o failed
        ok4 == IF ipv4_successes > 0 THEN
                   IF total_ipv4 = 1 THEN "IPv4 is OK"
                   ELSE ToString(ipv4_successes) \o "/" \o ToString(total_ipv4)
                            \o " IPv4 addresses are OK"
               ELSE ""
        ok6 == IF total_ipv6 = 1 THEN "IPv6 is OK"
               ELSE ToString(ipv6_successes) \o "/" \o ToString(total_ipv6)
                        \o " IPv6 addresses are OK"
        both == IF ipv6_successes > 0 THEN
                    IF ok4 /= "" THEN ok4 \o " and " \o ok6 ELSE ok6
                ELSE ok4
        suffix == IF both /= "" THEN " (" \o both \o ")" ELSE ""
    IN
    IF Len(msgs) > 1 THEN
        Join(SubSeq(msgs, 1, Len(msgs) - 1), ", ") \o " and " \o msgs[Len(msgs)] \o suffix
    ELSE IF Len(msgs) = 1 THEN msgs[1] \o suffix
    ELSE IF total = 0 THEN "No server addresses found"
    ELSE "federation not OK (unknown error)"

\* How a call of _test ends: by returning a ServerInfo (kind "ok") or by
\* raising (kind: the exception's class; msg: the text of a TestError).
Returned(info) == [kind |-> "ok", info |-> info, msg |-> ""]
Raised(kind, msg) == [kind |-> kind, info |-> NoneInfo, msg |-> msg]

NotResponding == "server not responding to version requests"

\* A version without which the name alone does not parse.
VersionOrNone(ver) == Get(ver, "version", "")

\* line 353: the version handed to ServerInfo.parse when the response has none.
VersionOrDefault(ver) == Get(ver, "version", "unknown version")

\* _test (lines 338-357) on the tester's response for server.
Test(server, result) ==
    IF "FederationOK" \notin DOMAIN result THEN Raised("KeyError", "")
    ELSE IF ~result["FederationOK"] THEN
        LET error_msg == ParseError(server, result)
            ver == GetOrEmpty(result, "Version")
            name == Get(ver, "name", "")
            version == Get(ver, "version", "")
            parsed == ServerInfoParse(name, version)
        IN
        IF name /= "" /\ version /= "" THEN
            IF parsed.kind = "ok"
            THEN Raised("TestError", error_msg \o " // " \o InfoStr(parsed.info))
            ELSE Raised(parsed.kind, "")
        ELSE Raised("TestError", error_msg)
    ELSE IF "Version" \notin DOMAIN result THEN Raised("TestError", NotResponding)
    ELSE IF result["Version"] = Null THEN Raised("TypeError", "")
    ELSE IF "name" \notin DOMAIN result["Version"] THEN Raised("TestError", NotResponding)
    ELSE
        LET parsed == ServerInfoParse(result["Version"]["name"],
                                      VersionOrDefault(result["Version"]))
        IN IF parsed.kind = "ok" THEN Returned(parsed.info) ELSE Raised(parsed.kind, "")

----------------------------------------------------------------------------
\* Room version support (lines 46-113, 146-160)

\* An entry of minimum_version: True, False or a minimum version.
True == [kind |-> "bool", bool |-> TRUE, version |-> NoVersion]
False == [kind |-> "bool", bool |-> FALSE, version |-> NoVersion]
AtLeast(parsed) == [kind |-> "version", bool |-> FALSE, version |-> parsed.version]

latest_known_version ==
    [ Synapse |-> PackagingParse("1.65.0").version,
      Dendrite |-> SemverParse("0.9.3").version,
      Conduit |-> SemverParse("0.4.0").version ]

minimum_version ==
    [ Synapse |->
          "1" :> True
          @@ "2" :> AtLeast(PackagingParse("0.99.0rc1"))
          @@ "3" :> AtLeast(PackagingParse("0.99.0rc1"))
          @@ "4" :> AtLeast(PackagingParse("0.99.5rc1"))
          @@ "5" :> AtLeast(PackagingParse("1.0.0rc1"))
          @@ "6" :> AtLeast(PackagingParse("1.14.0rc1"))
          @@ "7" :> AtLeast(PackagingParse("1.37.0rc1"))
          @@ "8" :> AtLeast(PackagingParse("1.40.0rc3"))
          @@ "9" :> AtLeast(PackagingParse("1.42.0rc2"))
          @@ "10" :> AtLeast(PackagingParse("1.64.0rc1")),
      construct |->
          "1" :> True @@ "2" :> True @@ "3" :> True @@ "4" :> True @@ "5" :> True
          @@ "6" :> True @@ "7" :> True @@ "8" :> True @@ "9" :> True
          @@ "10" :> False,
      Dendrite |->
          "1" :> True @@ "2" :> True @@ "3" :> True @@ "4" :> True @@ "5" :> True
          @@ "6" :> True
          @@ "7" :> AtLeast(SemverParse("0.4.1"))
          @@ "8" :> AtLeast(SemverParse("0.8.6"))
          @@ "9" :> AtLeast(SemverParse("0.8.6"))
          @@ "10" :> AtLeast(SemverParse("0.8.7")),
      Conduit |->
          "1" :> False @@ "2" :> False @@ "3" :> False @@ "4" :> False
          @@ "5" :> False
          @@ "6" :> True
          @@ "7" :> AtLeast(SemverParse("0.4.0"))
          @@ "8" :> AtLeast(SemverParse("0.4.0"))
          @@ "9" :> AtLeast(SemverParse("0.4.0"))
          @@ "10" :> False,
      Catalyst |->
          "1" :> False @@ "2" :> False @@ "3" :> False @@ "4" :> False
          @@ "5" :> False
          @@ "6" :> True @@ "7" :> True @@ "8" :> True @@ "9" :> True
          @@ "10" :> True ]

\* `self.version >= minimum` with the comparison the other way round.
MinimumExceeded(version, minimum) == VersionValueLt(minimum, version)

\* line 153: `self.version >= minimum`
MinimumMet(version, minimum) == ~VersionValueLt(version, minimum)

\* ServerInfo.is_new_enough (lines 146-153); no entry of the table is
\* callable.
NewEnoughFor(version, minimum) ==
    IF minimum.kind = "bool" THEN minimum.bool
    ELSE MinimumMet(version, minimum.version)

is_new_enough(info, room_ver) ==
    NewEnoughFor(info.version, Get(minimum_version[info.software], room_ver, False))

\* ServerInfo.is_unknown (lines 155-160) with the module's table passed in:
\* `latest[self.software] < self.version`, False on KeyError.
IsUnknownIn(latest, info) ==
    IF info.software \in DOMAIN latest
    THEN VersionValueLt(latest[info.software], info.version)
    ELSE FALSE

\* ServerInfo.is_unknown (lines 155-160).
is_unknown(info) == IsUnknownIn(latest_known_version, info)

\* ServerInfo values a probe can return; two of them are written differently
\* and equal as versions.
ServerInfos ==
    { ServerInfoParse("Synapse", "1.59.0").info,
      ServerInfoParse("Synapse", "1.60.0").info,
      ServerInfoParse("Synapse", "1.60").info,
      ServerInfoParse("Dendrite", "0.9.0").info }

NoneErr == "None"
\* Messages of TestError raised by _test.
TestErrorTexts == {"Server couldn't be reached"}

\* What awaiting asyncio.wait_for(self._test(server), timeout=60) can give.
ProbeOutcomes ==
    [kind : {"ok"}, info : ServerInfos, msg : {""}]
    \cup [kind : {"TestError"}, info : {NoneInfo}, msg : TestErrorTexts]
    \cup [kind : {"TimeoutError", "Exception"}, info : {NoneInfo}, msg : {""}]

NoOutcome == [kind |-> "none", info |-> NoneInfo, msg |-> ""]

\* Argument of `upgrade`: a room version in known_room_versions, and one not.
RoomVersionArgs == {"9", "11"}
known_room_versions == {"1", "2", "3", "4", "5", "6", "7", "8", "9", "10"}

\* Member lists _load_members can return: the servers of the joined users,
\* each with the list of its users (here one user per server); none when
\* get_joined_members gives no user.
OneUserEach(S) == [s \in S |-> << s >>]
MemberSets == { OneUserEach(S) : S \in SUBSET Servers }

\* The content of a message: what kind of text it is and, for a summary, the
\* lines _format_results gave.
NoBody == [versions |-> << >>, errors |-> << >>]
NoContent == [kind |-> "none", body |-> NoBody]

VARIABLES
    req,                \* request -> [kind, room, arg]: the command received
    pc,                 \* request -> position of its handler coroutine
    loc,                \* request -> local variables of its handler
    replied,            \* request -> which evt.reply text it has sent
    summary_edits,      \* request -> number of summary edits it has sent
    ready,              \* the event loop's FIFO queue of runnable coroutines
    tests_in_progress,  \* room -> task (NoRef: no entry)
    caches,             \* room -> Results (NoRef: no entry)
    tpc,                \* task -> position of the _servers coroutine
    pending,            \* task -> servers whose probe is in flight in _test_all
    probed,             \* task -> server -> how its probe in _test_all ended
    results,            \* Results object -> [servers, versions, vkeys, errors,
                        \*                    ekeys, event_id]
    tloc,               \* task -> local variables of _servers and its edit in flight
    published,          \* event id of a batch's message -> its content on the
                        \* homeserver
    lock,               \* Results object -> holder of Results.lock (NoRef: free)
    lock_waiters,       \* Results object -> FIFO of requests waiting in acquire()
    call,               \* a function applied on its own: [fn, args]
    ret                 \* what that call gave: [done, value]

vars == << req, pc, loc, replied, summary_edits, ready, tests_in_progress,
           caches, tpc, pending, probed, results, tloc, published, lock,
           lock_waiters, call, ret >>

NoCall == [fn |-> "none", args |-> << >>]
NoRet == [done |-> FALSE, value |-> << >>]

EmptyMap == [s \in {} |-> NoneInfo]

NoReq == [kind |-> "none", room |-> "", arg |-> ""]

\* event_id: the message the handler posted; target, content: the message
\* the _edit in flight replaces and the text it sends.
NoLoc ==
    [ awaited |-> NoRef, got |-> NoRef, cache |-> NoRef,
      prev_version |-> NoneInfo, prev_error |-> NoneErr,
      new_version |-> NoneInfo, new_error |-> NoneErr,
      outcome |-> NoOutcome, edit_ok |-> TRUE,
      event_id |-> NoRef, target |-> NoRef, content |-> NoContent ]

\* posts: the number of new messages the task has sent.
NoTLoc ==
    [ event_id |-> NoRef, target |-> NoRef, content |-> NoContent, posts |-> 0 ]

\* vkeys, ekeys: the keys of versions and of errors in insertion order.
NoResults ==
    [ servers |-> [s \in {} |-> << >>], versions |-> EmptyMap, vkeys |-> << >>,
      errors |-> EmptyMap, ekeys |-> << >>, event_id |-> NoRef ]

\* No command has been received.
NoRequests ==
    /\ req = [i \in Reqs |-> NoReq]
    /\ pc = [i \in Reqs |-> "none"]
    /\ loc = [i \in Reqs |-> NoLoc]
    /\ replied = [i \in Reqs |-> ""]
    /\ summary_edits = [i \in Reqs |-> 0]
    /\ ready = << >>
    /\ tests_in_progress = [r \in Rooms |-> NoRef]
    /\ caches = [r \in Rooms |-> NoRef]
    /\ tpc = [i \in Reqs |-> "none"]
    /\ pending = [i \in Reqs |-> {}]
    /\ probed = [i \in Reqs |-> EmptyMap]
    /\ results = [i \in Reqs |-> NoResults]
    /\ tloc = [i \in Reqs |-> NoTLoc]
    /\ published = [i \in Reqs |-> NoContent]
    /\ lock = [i \in Reqs |-> NoRef]
    /\ lock_waiters = [i \in Reqs |-> << >>]

Init == NoRequests /\ call = NoCall /\ ret = NoRet

----------------------------------------------------------------------------
\* Helpers

ReqCo(i) == [co |-> "req", id |-> i]
TaskCo(t) == [co |-> "task", id |-> t]

Runs(co) == ready /= << >> /\ Head(ready) = co

\* Members of a finite set of requests as a sequence in ascending order.
RECURSIVE Ascending(_)
Ascending(S) ==
    IF S = {} THEN << >>
    ELSE LET m == CHOOSE x \in S : \A y \in S : x <= y
         IN << m >> \o Ascending(S \ {m})

TaskFinished(t) == tpc[t] \in {"done", "failed"}
TaskRunning(t) == tpc[t] \notin {"none", "done", "failed"}

\* Mutant of Pop: the entry is read (dict.get) but not removed.
PopKeep(f, s) == f

\* dict.pop(s) for a key that is present (lines 508, 512).
Pop(f, s) == [x \in DOMAIN f \ {s} |-> f[x]]
Put(f, s, v) == [x \in DOMAIN f \cup {s} |-> IF x = s THEN v ELSE f[x]]

\* dict.items(): the entries of a dict with keys `keys` (in insertion order)
\* and values f.
Items(keys, f) == [k \in 1..Len(keys) |-> << keys[k], f[keys[k]] >>]

\* The insertion order of the keys of a dict after d[s] = v and after
\* d.pop(s): a new key goes to the end, a present key keeps its place.
KeysPut(keys, s) ==
    IF \E k \in 1..Len(keys) : keys[k] = s THEN keys ELSE Append(keys, s)

KeysPop(keys, s) == SelectSeq(keys, LAMBDA x : x /= s)

\* The keys of a dict with keys `keys` after the pop that leaves the entries f.
PopKeys(keys, f, s) == IF s \in DOMAIN f THEN keys ELSE KeysPop(keys, s)

----------------------------------------------------------------------------
\* ServerInfo ordering, _aggregate_versions and _format_results

\* server_order.get(software, 0) (lines 115-120, 169).
server_order(software) ==
    CASE software = "Synapse" -> 100
      [] software = "construct" -> 50
      [] software = "Conduit" -> 40
      [] software = "Dendrite" -> 10
      [] OTHER -> 0

\* ServerInfo.__lt__ for two values of the same software (lines 165-167).
VersionLt(a, b) == VersionValueLt(a.version, b.version)

\* `==` of two ServerInfo, or of one and None (the tuples' __eq__: the
\* software, then the versions).
InfoEq(a, b) ==
    /\ a.software = b.software
    /\ a.version.scheme = b.version.scheme
    /\ VersionValueEq(a.version, b.version)

\* Whether two ServerInfo are one key of a dict.
InfoKey(a, b) == a.software = b.software /\ SameKey(a.version, b.version)

\* Mutant of InfoLt: software of different priority compared the other way.
InfoLtAscending(a, b) ==
    IF a.software = b.software THEN VersionLt(a, b)
    ELSE server_order(b.software) < server_order(a.software)

\* ServerInfo.__lt__ (lines 165-169).
InfoLt(a, b) ==
    IF a.software = b.software THEN VersionLt(a, b)
    ELSE server_order(a.software) < server_order(b.software)

\* The users of a group with those of one more server put in front.
ExtendedInFront(existing_users, users) == users \o existing_users

\* line 393: `existing_users + users`
Extended(existing_users, users) == existing_users \o users

\* The loop of _aggregate_versions (lines 389-393) from the k-th entry of
\* results.versions on; acc is by_version, its groups in insertion order.
RECURSIVE ByVersion(_, _, _)
ByVersion(R, k, acc) ==
    IF k > Len(R.vkeys) THEN acc
    ELSE
        LET server_name == R.vkeys[k]
            info == R.versions[server_name]
            users == R.servers[server_name]
            at == { j \in 1..Len(acc) : InfoKey(acc[j].info, info) }
        IN
        IF at = {} THEN
            ByVersion(R, k + 1,
                      Append(acc, [info |-> info, server_count |-> 1, users |-> users]))
        ELSE
            LET j == CHOOSE x \in at : TRUE IN
            ByVersion(R, k + 1,
                      [acc EXCEPT ![j] = [info |-> @.info,
                                          server_count |-> @.server_count + 1,
                                          users |-> Extended(@.users, users)]])

\* `<` of two lists of str.
RECURSIVE StrSeqLt(_, _)
StrSeqLt(a, b) ==
    IF b = << >> THEN FALSE
    ELSE IF a = << >> THEN TRUE
    ELSE IF Head(a) = Head(b) THEN StrSeqLt(Tail(a), Tail(b))
    ELSE StrLt(Head(a), Head(b))

\* `<` of two items (info, (server_count, users)) of by_version, as tuples:
\* by ServerInfo.__lt__ unless the infos are equal, then by the count and
\* the users.
ItemLt(a, b) ==
    IF ~InfoEq(a.info, b.info) THEN InfoLt(a.info, b.info)
    ELSE IF a.server_count /= b.server_count THEN a.server_count < b.server_count
    ELSE StrSeqLt(a.users, b.users)

Reverse(a) == [k \in 1..Len(a) |-> a[Len(a) + 1 - k]]

\* list.sort of CPython for fewer than 64 items: the run at the start of the
\* list (count_run; a strictly descending run is reversed), then binary
\* insertion of the other items (binarysort).  Only `<` is used.
CountRun(a) ==
    LET descending == ItemLt(a[2], a[1])
        n == CHOOSE m \in 2..Len(a) :
                 /\ \A k \in 2..m : ItemLt(a[k], a[k - 1]) = descending
                 /\ m < Len(a) => ItemLt(a[m + 1], a[m]) /= descending
    IN [n |-> n, descending |-> descending]

RECURSIVE BinarySearch(_, _, _, _)
BinarySearch(a, pivot, l, r) ==
    IF l >= r THEN l
    ELSE LET p == l + ((r - l) \div 2) IN
         IF ItemLt(pivot, a[p]) THEN BinarySearch(a, pivot, l, p)
         ELSE BinarySearch(a, pivot, p + 1, r)

\* The list after binarysort has put a[start] in its place among the items
\* before it.
Inserted(a, start) ==
    LET pivot == a[start]
        l == BinarySearch(a, pivot, 1, start)
    IN [k \in 1..Len(a) |->
           IF k < l THEN a[k]
           ELSE IF k = l THEN pivot
           ELSE IF k <= start THEN a[k - 1]
           ELSE a[k]]

RECURSIVE BinarySort(_, _)
BinarySort(a, start) ==
    IF start > Len(a) THEN a ELSE BinarySort(Inserted(a, start), start + 1)

\* The list after count_run: a descending run at its start is reversed.
RunReversed(a) ==
    LET run == CountRun(a) IN
    [k \in 1..Len(a) |-> IF run.descending /\ k <= run.n THEN a[run.n + 1 - k] ELSE a[k]]

ListSort(a) ==
    IF Len(a) < 2 THEN a ELSE BinarySort(RunReversed(a), CountRun(a).n + 1)

\* The pairs << x, y >> of items for which list.sort evaluates x < y: those
\* of count_run (each item of the run with the one before it, and the item
\* that ends the run) and those of the binary searches.
CountRunPairs(a) ==
    { << a[k], a[k - 1] >> :
          k \in { j \in 2..Len(a) : j <= CountRun(a).n + 1 } }

RECURSIVE BinarySearchPairs(_, _, _, _)
BinarySearchPairs(a, pivot, l, r) ==
    IF l >= r THEN {}
    ELSE LET p == l + ((r - l) \div 2) IN
         { << pivot, a[p] >> }
             \cup (IF ItemLt(pivot, a[p]) THEN BinarySearchPairs(a, pivot, l, p)
                   ELSE BinarySearchPairs(a, pivot, p + 1, r))

RECURSIVE BinarySortPairs(_, _)
BinarySortPairs(a, start) ==
    IF start > Len(a) THEN {}
    ELSE BinarySearchPairs(a, a[start], 1, start)
             \cup BinarySortPairs(Inserted(a, start), start + 1)

ListSortPairs(a) ==
    IF Len(a) < 2 THEN {}
    ELSE CountRunPairs(a) \cup BinarySortPairs(RunReversed(a), CountRun(a).n + 1)

\* sorted(items, reverse=True): the list is reversed, sorted and reversed.
SortedReverse(a) == Reverse(ListSort(Reverse(a)))

\* _aggregate_versions (lines 385-394): the groups of servers by ServerInfo,
\* in the order of the returned dict.
AggregateVersions(R) == SortedReverse(ByVersion(R, 1, << >>))

\* _format_results (lines 396-416): the lines of the summary, as data: one
\* line per group of versions and, if any, one line per failed server.
FormatResults(R) ==
    LET by_version == AggregateVersions(R) IN
    [ versions |-> [k \in 1..Len(by_version) |->
                       [ info |-> by_version[k].info,
                         servers |-> by_version[k].server_count,
                         members |-> Len(by_version[k].users) ]],
      errors |-> [k \in 1..Len(R.ekeys) |->
                     [ server |-> R.ekeys[k],
                       members |-> Len(R.servers[R.ekeys[k]]),
                       error |-> R.errors[R.ekeys[k]] ]] ]

----------------------------------------------------------------------------
\* Bookkeeping shared by the actions

Final(p) == p \in {"done", "raised"}

\* Request i moves to position p with locals l, reply text rp and ne summary
\* edits sent.  When the handler ends, its frame (arguments and locals) is
\* gone: the request keeps only how it ended.
Step(i, p, l, rp, ne) ==
    /\ pc' = [pc EXCEPT ![i] = p]
    /\ loc' = [loc EXCEPT ![i] = IF Final(p) THEN NoLoc ELSE l]
    /\ replied' = [replied EXCEPT ![i] = IF Final(p) THEN "" ELSE rp]
    /\ summary_edits' = [summary_edits EXCEPT ![i] = IF Final(p) THEN 0 ELSE ne]
    /\ req' = [req EXCEPT ![i] = IF Final(p) THEN NoReq ELSE @]
    /\ UNCHANGED << call, ret >>

Goto(i, p) == Step(i, p, loc[i], replied[i], summary_edits[i])

ReqUnchanged == UNCHANGED << req, pc, loc, replied, summary_edits, call, ret >>

\* A Results object is reachable in the next state: it is in caches, its
\* batch is still running, or a retest that took it from caches is running.
Reachable(b) ==
    \/ \E r \in Rooms : caches'[r] = b
    \/ tpc'[b] \notin {"none", "done", "failed"}
    \/ \E i \in Reqs : ~Final(pc'[i]) /\ loc'[i].cache = b

\* The Results objects after a step that leaves them as res: an object nothing
\* refers to any more is garbage (written last in an action: it reads the
\* next caches, tpc, pc and loc).
Collect(res) == [b \in Reqs |-> IF Reachable(b) THEN res[b] ELSE NoResults]

\* The event id the homeserver gives to the message a coroutine posts with
\* evt.reply: no two messages have the same.
EventOfTask(t) == t
EventOfReq(i) == MaxReq + i

\* The messages after an edit of message e with the given content arrives.
Deliver(pub, e, content) ==
    [m \in DOMAIN pub |-> IF m = e THEN content ELSE pub[m]]

\* The messages after a step that leaves them as pub: the message of a batch
\* whose Results nothing refers to any more is no longer looked at (written
\* last in an action, as Collect).
CollectPublished(pub) ==
    [b \in Reqs |-> IF Reachable(b) THEN pub[b] ELSE NoContent]

\* The frame of a task that has ended is gone.
TaskFrameGone(t) == tloc' = [tloc EXCEPT ![t] = NoTLoc]

----------------------------------------------------------------------------
\* A command arrives: maubot runs its handler as a new task, queued on the
\* loop.  Requests are numbered in the order of arrival.

ArgsOf(k) ==
    CASE k = "retest" -> Servers
      [] k = "upgrade" -> RoomVersionArgs
      [] OTHER -> {""}

Arrive(i, k, r, a) ==
    /\ pc[i] = "none"
    /\ \A j \in Reqs : j < i => pc[j] /= "none"
    /\ a \in ArgsOf(k)
    /\ req' = [req EXCEPT ![i] = [kind |-> k, room |-> r, arg |-> a]]
    /\ pc' = [pc EXCEPT ![i] = "start"]
    /\ ready' = Append(ready, ReqCo(i))
    /\ UNCHANGED << loc, replied, summary_edits, tests_in_progress, caches,
                    tpc, pending, probed, results, tloc, published, lock,
                    lock_waiters, call, ret >>

----------------------------------------------------------------------------
\* test_or_wait and cached_or_test

\* servers, line 426: `if evt.room_id in self.tests_in_progress`
ServersBusy(r) == tests_in_progress[r] /= NoRef

\* Mutant of MustWait: test_or_wait without the check of line 432.
MustWaitNever(r) == FALSE

\* test_or_wait, line 432: `if evt.room_id in self.tests_in_progress`
MustWait(r) == tests_in_progress[r] /= NoRef

\* Mutant of CacheHit: cached_or_test that always goes to test_or_wait.
CacheHitNever(r) == FALSE

\* cached_or_test, lines 442-444: `return self.caches[evt.room_id]`
CacheHit(r) == caches[r] /= NoRef

\* The requests awaiting task t, in the order they began to await it (the
\* order of their done-callbacks): requests run in the order of arrival.
AwaitersOf(t) ==
    LET seq == Ascending({i \in Reqs : pc[i] \in {"await_own", "await"}
                                        /\ loc[i].awaited = t})
    IN [k \in 1..Len(seq) |-> ReqCo(seq[k])]

\* What a handler does once test_or_wait has returned (failed = FALSE) or
\* raised (failed = TRUE), up to its next suspension: servers returns;
\* cached_or_test (lines 446-450) reads the cache again, and upgrade / match
\* compute their report from it and send it.
AfterWait(i, t, failed) ==
    LET r == req[i].room IN
    IF failed THEN
        Step(i, "raised", loc[i], replied[i], 0)
    ELSE IF req[i].kind = "servers" THEN
        Step(i, "done", loc[i], replied[i], 0)
    ELSE IF caches[r] /= NoRef THEN
        Step(i, "reply", [loc[i] EXCEPT !.awaited = t, !.got = caches[r]],
             "report", 0)
    ELSE
        Step(i, "reply", [loc[i] EXCEPT !.awaited = t],
             "Cache didn't contain test results even after waiting", 0)

\* test_or_wait up to its first suspension (lines 431-437).
TestOrWait(i) ==
    LET r == req[i].room
        t == tests_in_progress[r]
    IN
    IF MustWait(r) THEN
        IF TaskFinished(t) THEN
            \* awaiting a finished task returns or raises without suspending
            /\ AfterWait(i, t, tpc[t] = "failed")
            /\ ready' = Tail(ready)
            /\ UNCHANGED << tests_in_progress, tpc >>
        ELSE
            /\ Step(i, "await", [loc[i] EXCEPT !.awaited = t], replied[i], 0)
            /\ ready' = Tail(ready)
            /\ UNCHANGED << tests_in_progress, tpc >>
    ELSE
        \* line 435: the task is created and registered in one step
        /\ tests_in_progress' = [tests_in_progress EXCEPT ![r] = i]
        /\ tpc' = [tpc EXCEPT ![i] = "start"]
        /\ ready' = Append(Tail(ready), TaskCo(i))
        /\ Step(i, "await_own", [loc[i] EXCEPT !.awaited = i], replied[i], 0)

\* cached_or_test up to its first suspension (lines 441-445).
CachedOrTest(i) ==
    LET r == req[i].room IN
    IF CacheHit(r) THEN
        /\ Step(i, "reply", [loc[i] EXCEPT !.got = caches[r]], "report", 0)
        /\ ready' = Tail(ready)
        /\ UNCHANGED << tests_in_progress, tpc >>
    ELSE TestOrWait(i)

\* `!servers` (lines 425-429).
ServersCmd(i) ==
    /\ Runs(ReqCo(i))
    /\ pc[i] = "start"
    /\ req[i].kind = "servers"
    /\ IF ServersBusy(req[i].room) THEN
           /\ Step(i, "reply", loc[i], "There is already a test in progress.", 0)
           /\ ready' = Tail(ready)
           /\ UNCHANGED << tests_in_progress, tpc >>
       ELSE TestOrWait(i)
    /\ UNCHANGED << caches, pending, probed, results, tloc, published, lock,
                    lock_waiters >>

\* `!servers upgrade <room_version>` up to its first suspension (lines 591-597).
Upgrade(i) ==
    /\ Runs(ReqCo(i))
    /\ pc[i] = "start"
    /\ req[i].kind = "upgrade"
    /\ IF req[i].arg \notin known_room_versions THEN
           /\ Step(i, "reply", loc[i], "Unknown room version", 0)
           /\ ready' = Tail(ready)
           /\ UNCHANGED << tests_in_progress, tpc >>
       ELSE CachedOrTest(i)
    /\ UNCHANGED << caches, pending, probed, results, tloc, published, lock,
                    lock_waiters >>

\* `!servers match <software>` up to its first suspension (lines 662-671).
Match(i) ==
    /\ Runs(ReqCo(i))
    /\ pc[i] = "start"
    /\ req[i].kind = "match"
    /\ CachedOrTest(i)
    /\ UNCHANGED << caches, pending, probed, results, tloc, published, lock,
                    lock_waiters >>

\* Mutant of MarkerDeleted: the `del` after `await task` without try/finally.
MarkerDeletedOnReturn(r, failed) ==
    IF failed THEN tests_in_progress ELSE [tests_in_progress EXCEPT ![r] = NoRef]

\* tests_in_progress after the finally clause of test_or_wait (lines 438-439),
\* which runs whether the task returned or raised (failed).
MarkerDeleted(r, failed) == [tests_in_progress EXCEPT ![r] = NoRef]

\* test_or_wait of the request that created the task, resumed after
\* `await task` (lines 436-439): the finally clause deletes the marker (a
\* KeyError if there is none), then the task's exception, if any, goes on.
AwaitOwnResume(i) ==
    LET r == req[i].room IN
    /\ Runs(ReqCo(i))
    /\ pc[i] = "await_own"
    /\ IF tests_in_progress[r] = NoRef THEN
           /\ Step(i, "raised", loc[i], "KeyError", 0)
           /\ UNCHANGED tests_in_progress
       ELSE
           /\ tests_in_progress' = MarkerDeleted(r, tpc[i] = "failed")
           /\ AfterWait(i, i, tpc[i] = "failed")
    /\ ready' = Tail(ready)
    /\ UNCHANGED << caches, tpc, pending, probed, results, tloc, published, lock,
                    lock_waiters >>

\* test_or_wait of a request that awaited another request's task, resumed
\* (lines 433-434).
AwaitResume(i) ==
    /\ Runs(ReqCo(i))
    /\ pc[i] = "await"
    /\ AfterWait(i, loc[i].awaited, tpc[loc[i].awaited] = "failed")
    /\ ready' = Tail(ready)
    /\ UNCHANGED << tests_in_progress, caches, tpc, pending, probed, results, tloc,
                    published, lock, lock_waiters >>

\* The last evt.reply / _edit of a handler completes: the handler returns,
\* or the send raises.
ReplyDone(i, ok) ==
    /\ pc[i] \in {"reply", "status_edit"}
    /\ Goto(i, IF ok THEN "done" ELSE "raised")
    /\ UNCHANGED << ready, tests_in_progress, caches, tpc, pending, probed, tloc,
                    lock, lock_waiters >>
    /\ results' = Collect(results)
    /\ published' = CollectPublished(published)

----------------------------------------------------------------------------
\* The batch task: _servers and _test_all

\* A task ends (returns or raises): the coroutines awaiting it are queued.
FinishTask(t, ok) ==
    /\ tpc' = [tpc EXCEPT ![t] = IF ok THEN "done" ELSE "failed"]
    /\ ready' = ready \o AwaitersOf(t)

\* The message of the exception handlers of a probe (lines 374-379, 526-531).
ErrorText(o) ==
    CASE o.kind = "TestError" -> o.msg
      [] o.kind = "TimeoutError" -> "test timed out"
      [] o.kind = "Exception" -> "internal plugin error"

\* versions / errors after the outcome o of the probe of server s is stored
\* (lines 372-379 in _test_all, lines 522-531 in retest).
RecordVersion(versions, s, o) ==
    IF o.kind = "ok" THEN Put(versions, s, o.info) ELSE versions

\* Mutant of RecordError: _test_all / retest without the `except Exception`
\* clause, so that an unexpected exception of a probe is not recorded.
RecordErrorUncaught(errors, s, o) ==
    IF o.kind \in {"ok", "Exception"} THEN errors ELSE Put(errors, s, ErrorText(o))

RecordError(errors, s, o) ==
    IF o.kind = "ok" THEN errors ELSE Put(errors, s, ErrorText(o))

\* A Results object after the outcome o of the probe of server s is stored:
\* the entry and the place of its key in the dict.
Record(R, s, o) ==
    [R EXCEPT !.versions = RecordVersion(@, s, o),
              !.vkeys = IF s \in DOMAIN RecordVersion(R.versions, s, o)
                        THEN KeysPut(@, s) ELSE @,
              !.errors = RecordError(@, s, o),
              !.ekeys = IF s \in DOMAIN RecordError(R.errors, s, o)
                        THEN KeysPut(@, s) ELSE @]

\* The task starts: evt.reply("Loading member list...") (line 453).
TaskStart(t) ==
    /\ Runs(TaskCo(t))
    /\ tpc[t] = "start"
    /\ tpc' = [tpc EXCEPT ![t] = "reply"]
    /\ tloc' = [tloc EXCEPT ![t].posts = @ + 1]
    /\ ready' = Tail(ready)
    /\ ReqUnchanged
    /\ UNCHANGED << tests_in_progress, caches, pending, probed, results, published,
                    lock, lock_waiters >>

\* The reply is sent, which gives the message of the batch and its event
\* id, or fails; _load_members starts (lines 453-454).
TaskReplied(t, ok) ==
    /\ tpc[t] = "reply"
    /\ IF ok THEN /\ tpc' = [tpc EXCEPT ![t] = "load"]
                  /\ tloc' = [tloc EXCEPT ![t].event_id = EventOfTask(t)]
                  /\ published' = Deliver(published, EventOfTask(t),
                                          [kind |-> "loading", body |-> NoBody])
                  /\ UNCHANGED ready
             ELSE /\ FinishTask(t, FALSE)
                  /\ TaskFrameGone(t)
                  /\ UNCHANGED published
    /\ ReqUnchanged
    /\ UNCHANGED << tests_in_progress, caches, pending, probed, results, lock,
                    lock_waiters >>

\* get_joined_members returns or fails; the progress edit starts (lines 454-461).
TaskMembersLoaded(t, ok, members) ==
    /\ tpc[t] = "load"
    /\ ReqUnchanged
    /\ UNCHANGED << tests_in_progress, caches, pending, probed, lock, lock_waiters >>
    /\ IF ok THEN /\ tpc' = [tpc EXCEPT ![t] = "edit1"]
                  /\ results' = [results EXCEPT ![t].servers = members]
                  /\ tloc' = [tloc EXCEPT
                                ![t].target = tloc[t].event_id,
                                ![t].content = [kind |-> "progress", body |-> NoBody]]
                  /\ UNCHANGED << ready, published >>
             ELSE /\ FinishTask(t, FALSE)
                  /\ TaskFrameGone(t)
                  /\ UNCHANGED results
                  /\ published' = CollectPublished(published)

\* _test_all has returned: the Results get the event id of the task's message,
\* are stored in caches, and the summary edit starts (lines 462-465).  pub is
\* what the room shows when that happens.
StoreResults(t, pub) ==
    /\ caches' = [caches EXCEPT ![req[t].room] = t]
    /\ tpc' = [tpc EXCEPT ![t] = "edit2"]
    /\ probed' = [probed EXCEPT ![t] = EmptyMap]
    /\ tloc' = [tloc EXCEPT
                  ![t].target = tloc[t].event_id,
                  ![t].content = [kind |-> "results",
                                  body |-> FormatResults(results[t])]]
    /\ results' = Collect([results EXCEPT ![t].event_id = tloc[t].event_id])
    /\ published' = CollectPublished(pub)

\* The progress edit is sent or fails; _test_all starts one probe per server
\* (lines 456-462, 381).  With no server, gather gives a future that is done
\* already: _test_all returns without suspending, and the task goes on to
\* line 465 in the same step.
TaskProgressEdited(t, ok) ==
    /\ tpc[t] = "edit1"
    /\ ReqUnchanged
    /\ UNCHANGED << tests_in_progress, lock, lock_waiters >>
    /\ IF ok /\ DOMAIN results[t].servers = {}
       THEN /\ StoreResults(t, Deliver(published, tloc[t].target, tloc[t].content))
            /\ UNCHANGED << ready, pending >>
       ELSE IF ok
       THEN /\ tpc' = [tpc EXCEPT ![t] = "probing"]
            /\ pending' = [pending EXCEPT ![t] = DOMAIN results[t].servers]
            /\ published' = Deliver(published, tloc[t].target, tloc[t].content)
            /\ tloc' = [tloc EXCEPT ![t].target = NoRef,
                                    ![t].content = NoContent]
            /\ UNCHANGED << ready, results, caches, probed >>
       ELSE /\ FinishTask(t, FALSE)
            /\ TaskFrameGone(t)
            /\ UNCHANGED << pending, caches, probed >>
            /\ results' = Collect(results)
            /\ published' = CollectPublished(published)

\* One probe of the batch ends with outcome o (lines 371-379); when it was the
\* last one, the done callback of gather is queued on the loop (line 381).
ProbeDone(t, s, o) ==
    /\ tpc[t] = "probing"
    /\ s \in pending[t]
    /\ results' = [results EXCEPT ![t] = Record(@, s, o)]
    /\ pending' = [pending EXCEPT ![t] = @ \ {s}]
    /\ probed' = [probed EXCEPT ![t] = Put(@, s, o)]
    /\ IF pending[t] = {s}
       THEN tpc' = [tpc EXCEPT ![t] = "gathered"] /\ ready' = Append(ready, TaskCo(t))
       ELSE UNCHANGED << tpc, ready >>
    /\ ReqUnchanged
    /\ UNCHANGED << tests_in_progress, caches, tloc, published, lock, lock_waiters >>

\* The done callback of gather runs: the future _test_all awaits gets its
\* result, which queues the wakeup of the task behind what the loop has
\* queued by then (line 381).
GatherDone(t) ==
    /\ Runs(TaskCo(t))
    /\ tpc[t] = "gathered"
    /\ tpc' = [tpc EXCEPT ![t] = "tested"]
    /\ ready' = Append(Tail(ready), TaskCo(t))
    /\ ReqUnchanged
    /\ UNCHANGED << tests_in_progress, caches, pending, probed, results, tloc,
                    published, lock, lock_waiters >>

\* The task is resumed in _test_all, which returns the Results (lines 382-383,
\* 462-465).
TaskStore(t) ==
    /\ Runs(TaskCo(t))
    /\ tpc[t] = "tested"
    /\ ready' = Tail(ready)
    /\ ReqUnchanged
    /\ UNCHANGED << tests_in_progress, pending, lock, lock_waiters >>
    /\ StoreResults(t, published)

\* The answer to the summary edit of the task arrives, or the edit fails: the
\* wakeup of the task is queued on the loop (line 465).
TaskSummaryEdited(t, ok) ==
    /\ tpc[t] = "edit2"
    /\ tpc' = [tpc EXCEPT ![t] = IF ok THEN "edited2" ELSE "edit2_failed"]
    /\ ready' = Append(ready, TaskCo(t))
    /\ published' = IF ok THEN Deliver(published, tloc[t].target, tloc[t].content)
                          ELSE published
    /\ tloc' = [tloc EXCEPT ![t].target = NoRef, ![t].content = NoContent]
    /\ ReqUnchanged
    /\ UNCHANGED << tests_in_progress, caches, pending, probed, results, lock,
                    lock_waiters >>

\* The task is resumed after its summary edit and ends: it returns the
\* Results, or raises what the edit raised (line 465).
TaskEnd(t) ==
    /\ Runs(TaskCo(t))
    /\ tpc[t] \in {"edited2", "edit2_failed"}
    /\ tpc' = [tpc EXCEPT ![t] = IF tpc[t] = "edited2" THEN "done" ELSE "failed"]
    /\ ready' = Tail(ready) \o AwaitersOf(t)
    /\ TaskFrameGone(t)
    /\ ReqUnchanged
    /\ UNCHANGED << tests_in_progress, caches, pending, probed, lock, lock_waiters >>
    /\ results' = Collect(results)
    /\ published' = CollectPublished(published)

----------------------------------------------------------------------------
\* retest

\* Mutant of Differs: only the versions are compared.
DiffersVersionOnly(prev_version, prev_error, new_version, new_error) ==
    ~InfoEq(new_version, prev_version)

\* Line 533: `if new_error != prev_error or new_version != prev_version`
Differs(prev_version, prev_error, new_version, new_error) ==
    new_error /= prev_error \/ ~InfoEq(new_version, prev_version)

\* Mutant of Status: a changed version of the same software is always
\* reported as an update.
StatusNoDowngrade(prev_version, new_version, new_error) ==
    IF new_error /= NoneErr THEN "failed"
    ELSE IF prev_version /= NoneInfo THEN
        IF InfoEq(prev_version, new_version) THEN "still on"
        ELSE IF prev_version.software = new_version.software THEN "updated"
        ELSE "switched"
    ELSE "back up"

\* The text of the final edit of retest (lines 539-554).
Status(prev_version, new_version, new_error) ==
    IF new_error /= NoneErr THEN "failed"
    ELSE IF prev_version /= NoneInfo THEN
        IF InfoEq(prev_version, new_version) THEN "still on"
        ELSE IF prev_version.software = new_version.software THEN
            IF VersionLt(prev_version, new_version) THEN "updated" ELSE "downgraded"
        ELSE "switched"
    ELSE "back up"

\* Mutant of SummaryTarget: the summary is sent as an edit of the handler's
\* own "Re-testing ..." message.
SummaryTargetOwn(i, R) == loc[i].event_id

\* The message the summary edit of retest replaces: cache.event_id (line 536).
SummaryTarget(i, R) == R.event_id

\* Mutant of NotInResults: retest without the check of line 501.
NotInResultsNever(c, s) == FALSE

\* Line 501: `if server not in cache.servers`
NotInResults(c, s) == s \notin DOMAIN results[c].servers

\* `!servers retest <server>` up to its first suspension (lines 493-518).
Retest(i) ==
    LET r == req[i].room
        s == req[i].arg
        c == caches[r]
    IN
    /\ Runs(ReqCo(i))
    /\ pc[i] = "start"
    /\ req[i].kind = "retest"
    /\ ready' = Tail(ready)
    /\ UNCHANGED << tests_in_progress, caches, tpc, pending, probed, tloc, published,
                    lock, lock_waiters >>
    /\ IF c = NoRef THEN
           /\ Step(i, "reply", loc[i], "No cached results.", 0)
           /\ UNCHANGED results
       ELSE IF NotInResults(c, s) THEN
           /\ Step(i, "reply", loc[i], "That server isn't in the previous results.", 0)
           /\ UNCHANGED results
       ELSE IF s \in DOMAIN results[c].versions THEN
           /\ Step(i, "retest_reply",
                   [loc[i] EXCEPT !.cache = c,
                                  !.prev_version = results[c].versions[s]],
                   "Re-testing", 0)
           /\ results' = [results EXCEPT
                            ![c].versions = Pop(@, s),
                            ![c].vkeys = PopKeys(@, Pop(results[c].versions, s), s)]
       ELSE IF s \in DOMAIN results[c].errors THEN
           /\ Step(i, "retest_reply",
                   [loc[i] EXCEPT !.cache = c,
                                  !.prev_error = results[c].errors[s]],
                   "Re-testing", 0)
           /\ results' = [results EXCEPT
                            ![c].errors = Pop(@, s),
                            ![c].ekeys = PopKeys(@, Pop(results[c].errors, s), s)]
       ELSE
           /\ Step(i, "reply", loc[i],
                   "That server seems to be in the progress of being retested.", 0)
           /\ UNCHANGED results

\* The "Re-testing ..." reply is sent, which gives the handler's own message
\* and its event id, or fails; the probe starts (lines 518-525).
RetestReplied(i, ok) ==
    /\ pc[i] = "retest_reply"
    /\ IF ok THEN Step(i, "probe", [loc[i] EXCEPT !.event_id = EventOfReq(i)],
                       replied[i], summary_edits[i])
             ELSE Goto(i, "raised")
    /\ UNCHANGED << ready, tests_in_progress, caches, tpc, pending, probed, tloc,
                    lock, lock_waiters >>
    /\ results' = Collect(results)
    /\ published' = CollectPublished(published)

\* The probe of a retest ends with outcome o; the handler becomes runnable.
RetestProbeDone(i, o) ==
    /\ pc[i] = "probe"
    /\ Step(i, "probed", [loc[i] EXCEPT !.outcome = o], replied[i], 0)
    /\ ready' = Append(ready, ReqCo(i))
    /\ UNCHANGED << tests_in_progress, caches, tpc, pending, probed, results, tloc,
                    published, lock, lock_waiters >>

\* asyncio.Lock.acquire without suspension: the lock is free and nobody waits.
LockFree(c) == lock[c] = NoRef /\ lock_waiters[c] = << >>

\* The handler stores the outcome in the Results it took from caches at its
\* start, compares it with the previous one and, if it differs, acquires the
\* lock and starts the summary edit (lines 522-537); otherwise it starts the
\* edit of its own reply (lines 539-556).
RetestRecord(i) ==
    LET c == loc[i].cache
        s == req[i].arg
        o == loc[i].outcome
        new_version == IF o.kind = "ok" THEN o.info ELSE NoneInfo
        new_error == IF o.kind = "ok" THEN NoneErr ELSE ErrorText(o)
        l == [loc[i] EXCEPT !.new_version = new_version, !.new_error = new_error]
        R == Record(results[c], s, o)
    IN
    /\ Runs(ReqCo(i))
    /\ pc[i] = "probed"
    /\ ready' = Tail(ready)
    /\ results' = [results EXCEPT ![c] = R]
    /\ IF Differs(loc[i].prev_version, loc[i].prev_error, new_version, new_error)
       THEN IF LockFree(c)
            THEN /\ lock' = [lock EXCEPT ![c] = i]
                 /\ Step(i, "summary_edit",
                         [l EXCEPT !.target = SummaryTarget(i, R),
                                   !.content = [kind |-> "results",
                                                body |-> FormatResults(R)]],
                         replied[i], summary_edits[i] + 1)
                 /\ UNCHANGED lock_waiters
            ELSE /\ lock_waiters' = [lock_waiters EXCEPT ![c] = Append(@, i)]
                 /\ Step(i, "lock_wait", l, replied[i], summary_edits[i])
                 /\ UNCHANGED lock
       ELSE /\ Step(i, "status_edit", [l EXCEPT !.target = loc[i].event_id],
                    Status(loc[i].prev_version, new_version, new_error),
                    summary_edits[i])
            /\ UNCHANGED << lock, lock_waiters >>
    /\ UNCHANGED << tests_in_progress, caches, tpc, pending, probed, tloc, published >>

\* A handler woken in Lock.acquire takes the lock and starts the summary edit
\* (lines 534-537).
RetestLocked(i) ==
    LET c == loc[i].cache IN
    /\ Runs(ReqCo(i))
    /\ pc[i] = "lock_wait"
    /\ ready' = Tail(ready)
    /\ lock' = [lock EXCEPT ![c] = i]
    /\ lock_waiters' = [lock_waiters EXCEPT ![c] = SelectSeq(@, LAMBDA w : w /= i)]
    /\ Step(i, "summary_edit",
            [loc[i] EXCEPT !.target = SummaryTarget(i, results[c]),
                           !.content = [kind |-> "results",
                                        body |-> FormatResults(results[c])]],
            replied[i], summary_edits[i] + 1)
    /\ UNCHANGED << tests_in_progress, caches, tpc, pending, probed, results, tloc,
                    published >>

\* The summary edit of a retest is sent or fails; the handler becomes runnable.
RetestSummaryEdited(i, ok) ==
    /\ pc[i] = "summary_edit"
    /\ Step(i, "summary_edited",
            [loc[i] EXCEPT !.edit_ok = ok, !.target = NoRef, !.content = NoContent],
            replied[i], summary_edits[i])
    /\ published' = IF ok THEN Deliver(published, loc[i].target, loc[i].content)
                          ELSE published
    /\ ready' = Append(ready, ReqCo(i))
    /\ UNCHANGED << tests_in_progress, caches, tpc, pending, probed, results, tloc,
                    lock, lock_waiters >>

\* A lock that stays with handler i after the `async with` block.
LockKept(i) == i

\* The holder of the lock once handler i has left `async with cache.lock`
\* (line 534): Lock.release leaves it with nobody.
LockReleased(i) == NoRef

\* The handler leaves `async with cache.lock` (Lock.release wakes the first
\* waiter) and, unless the edit raised, starts the edit of its own reply
\* (lines 534-556).
RetestRelease(i) ==
    LET c == loc[i].cache IN
    /\ Runs(ReqCo(i))
    /\ pc[i] = "summary_edited"
    /\ lock' = [lock EXCEPT ![c] = LockReleased(i)]
    /\ ready' = IF lock_waiters[c] = << >> THEN Tail(ready)
                ELSE Append(Tail(ready), ReqCo(Head(lock_waiters[c])))
    /\ IF loc[i].edit_ok
       THEN Step(i, "status_edit", [loc[i] EXCEPT !.target = loc[i].event_id],
                 Status(loc[i].prev_version, loc[i].new_version, loc[i].new_error),
                 summary_edits[i])
       ELSE Goto(i, "raised")
    /\ UNCHANGED << tests_in_progress, caches, tpc, pending, probed, tloc,
                    lock_waiters >>
    /\ results' = Collect(results)
    /\ published' = CollectPublished(published)

----------------------------------------------------------------------------
\* Specifications

\* The steps of the batch task, the member list being one of `members` and
\* its probes ending with an outcome of `outcomes`.
BatchNext(members, outcomes) ==
    \/ \E t \in Reqs : TaskStart(t)
    \/ \E t \in Reqs, ok \in BOOLEAN : TaskReplied(t, ok)
    \/ \E t \in Reqs, ok \in BOOLEAN, m \in members : TaskMembersLoaded(t, ok, m)
    \/ \E t \in Reqs, ok \in BOOLEAN : TaskProgressEdited(t, ok)
    \/ \E t \in Reqs, s \in Servers, o \in outcomes : ProbeDone(t, s, o)
    \/ \E t \in Reqs : GatherDone(t)
    \/ \E t \in Reqs : TaskStore(t)
    \/ \E t \in Reqs, ok \in BOOLEAN : TaskSummaryEdited(t, ok)
    \/ \E t \in Reqs : TaskEnd(t)

\* The commands that need a batch: servers, upgrade and match, in two rooms.
\* Their control flow depends on the member list only in whether there is a
\* server to probe, and not on what the probes return: no server or one
\* server, one successful and one failing outcome stand for all.
BatchKinds == {"servers", "upgrade", "match"}

BatchMembers == {OneUserEach({}), OneUserEach({"s1"})}

BatchOutcomes ==
    { [kind |-> "ok", info |-> ServerInfoParse("Synapse", "1.59.0").info, msg |-> ""],
      [kind |-> "TimeoutError", info |-> NoneInfo, msg |-> ""] }

Next ==
    \/ \E i \in Reqs, k \in BatchKinds, r \in Rooms :
           \E a \in ArgsOf(k) : Arrive(i, k, r, a)
    \/ \E i \in Reqs : ServersCmd(i)
    \/ \E i \in Reqs : Upgrade(i)
    \/ \E i \in Reqs : Match(i)
    \/ \E i \in Reqs : AwaitOwnResume(i)
    \/ \E i \in Reqs : AwaitResume(i)
    \/ \E i \in Reqs, ok \in BOOLEAN : ReplyDone(i, ok)
    \/ BatchNext(BatchMembers, BatchOutcomes)

Spec == Init /\ [][Next]_vars

\* The batch and the retests of its servers, in one room, with every outcome
\* of a probe.
RetestKinds == {"servers", "retest"}
RetestRooms == {"r1"}
RetestMembers == {OneUserEach({"s1"}), OneUserEach({"s1", "s2"})}

RetestBatchOutcomes ==
    { [kind |-> "ok", info |-> ServerInfoParse("Synapse", "1.59.0").info, msg |-> ""],
      [kind |-> "TestError", info |-> NoneInfo, msg |-> "Server couldn't be reached"] }

NextRetest ==
    \/ \E i \in Reqs, k \in RetestKinds, r \in RetestRooms :
           \E a \in ArgsOf(k) : Arrive(i, k, r, a)
    \/ \E i \in Reqs : ServersCmd(i)
    \/ \E i \in Reqs : AwaitOwnResume(i)
    \/ \E i \in Reqs, ok \in BOOLEAN : ReplyDone(i, ok)
    \/ BatchNext(RetestMembers, RetestBatchOutcomes)
    \/ \E i \in Reqs : Retest(i)
    \/ \E i \in Reqs, ok \in BOOLEAN : RetestReplied(i, ok)
    \/ \E i \in Reqs, o \in ProbeOutcomes : RetestProbeDone(i, o)
    \/ \E i \in Reqs : RetestRecord(i)
    \/ \E i \in Reqs : RetestLocked(i)
    \/ \E i \in Reqs, ok \in BOOLEAN : RetestSummaryEdited(i, ok)
    \/ \E i \in Reqs : RetestRelease(i)

SpecRetest == Init /\ [][NextRetest]_vars

\* The batch alone, in one room, with every member list and every outcome of
\* a probe.
NextBatch ==
    \/ \E i \in Reqs, r \in RetestRooms : Arrive(i, "servers", r, "")
    \/ \E i \in Reqs : ServersCmd(i)
    \/ \E i \in Reqs : AwaitOwnResume(i)
    \/ \E i \in Reqs, ok \in BOOLEAN : ReplyDone(i, ok)
    \/ BatchNext(MemberSets, ProbeOutcomes)

SpecBatch == Init /\ [][NextBatch]_vars

----------------------------------------------------------------------------
\* Functions applied on their own (SpecCalls)

\* The call of fn in progress returns value; nothing else of the program
\* moves.
Apply(fn, value) ==
    /\ call.fn = fn
    /\ ~ret.done
    /\ ret' = [done |-> TRUE, value |-> value]
    /\ UNCHANGED << req, pc, loc, replied, summary_edits, ready,
                    tests_in_progress, caches, tpc, pending, probed, results,
                    tloc, published, lock, lock_waiters, call >>

\* Responses of the federation tester: what it reports as Version and what
\* it reports of the addresses it tried.
SoftwareNames == {"Synapse", "synapse", "Dendrite", "Foo"}
VersionTexts ==
    {"1.60.0", "1.59.0rc1 (b=master,abc)", "1.70.0.dev1", "0.9.0", "0.9.3+317b101", "x"}

VersionEntries ==
    {Null, EmptyDict}
    \cup { [name |-> n] : n \in SoftwareNames }
    \cup { [version |-> v] : v \in VersionTexts }
    \cup [name : SoftwareNames, version : VersionTexts]

AllChecksOK ==
    [Checks |-> [MatchingServerName |-> TRUE, ValidCertificates |-> TRUE,
                 AllChecksOK |-> TRUE]]
BadCertificate == [Checks |-> [MatchingServerName |-> TRUE]]

ConnectionParts ==
    { EmptyDict,
      "ConnectionErrors" :> << >> @@ "ConnectionReports" :> << >>,
      "ConnectionErrors" :> << "1.2.3.4:8448" >>,
      "ConnectionErrors" :> << "1.2.3.4:8448", "[::1]:8448" >>,
      "ConnectionErrors" :> << "[::1]:8448" >>
          @@ "ConnectionReports" :> << [addr |-> "1.2.3.4:8448", data |-> AllChecksOK] >>,
      "ConnectionReports" :> << [addr |-> "1.2.3.4:8448", data |-> BadCertificate],
                                [addr |-> "5.6.7.8:8448", data |-> EmptyDict] >> }

TestResponses ==
    { ("FederationOK" :> ok) @@ v @@ c :
          ok \in BOOLEAN,
          v \in {EmptyDict} \cup { "Version" :> e : e \in VersionEntries },
          c \in ConnectionParts }

TestCalls ==
    { [fn |-> "_test", args |-> [server |-> "s1", result |-> r]] : r \in TestResponses }

CallTest == Apply("_test", Test(call.args.server, call.args.result))

\* upgrade, lines 607-619: the class of one server of cache.versions.
UpgradeClass(info, room_version) ==
    IF info.software \notin DOMAIN minimum_version THEN "unknown"
    ELSE IF is_new_enough(info, room_version) THEN "up_to_date"
    ELSE "outdated"

\* The sum of len(users) over the servers ss.
RECURSIVE CountUsers(_, _)
CountUsers(cache, ss) ==
    IF ss = << >> THEN 0
    ELSE Len(cache.servers[Head(ss)]) + CountUsers(cache, Tail(ss))

\* The branch of the loop of upgrade taken for a server that is newer than
\* the latest known release is the unknown one.
BranchGated(latest, info, room_version) ==
    IF IsUnknownIn(latest, info) THEN "unknown" ELSE UpgradeClass(info, room_version)

\* lines 609-614: the branch of the loop of upgrade taken for a server, in a
\* module whose latest_known_version is `latest`; the conditions read
\* minimum_version only.
Branch(latest, info, room_version) == UpgradeClass(info, room_version)

\* upgrade, lines 598-619, in a module whose latest_known_version is
\* `latest`: the counters after the loop over cache.versions; outdated_matches
\* holds the servers whose user list it has.
UpgradeCounters(latest, cache, up_to_date, outdated, unknown) ==
    [ up_to_date_servers |-> Len(up_to_date),
      up_to_date_users |-> CountUsers(cache, up_to_date),
      outdated_servers |-> Len(outdated),
      outdated_users |-> CountUsers(cache, outdated),
      unknown_servers |-> Len(unknown),
      unknown_users |-> CountUsers(cache, unknown),
      outdated_matches |-> outdated,
      may_contain_new_software |->
          \E k \in 1..Len(outdated) : IsUnknownIn(latest, cache.versions[outdated[k]]) ]

\* The servers of cache.versions, in its order, whose branch is as `branches`
\* gives it.
ServersOf(cache, branches, c) == SelectSeq(cache.vkeys, LAMBDA s : branches[s] = c)

UpgradeBranches(latest, cache, branches) ==
    UpgradeCounters(latest, cache, ServersOf(cache, branches, "up_to_date"),
                    ServersOf(cache, branches, "outdated"),
                    ServersOf(cache, branches, "unknown"))

UpgradeCountsWith(latest, cache, room_version) ==
    UpgradeBranches(latest, cache,
                    [s \in DOMAIN cache.versions |->
                         Branch(latest, cache.versions[s], room_version)])

\* upgrade, lines 598-619, with the table of the module.
UpgradeCounts(cache, room_version) ==
    UpgradeCountsWith(latest_known_version, cache, room_version)

\* Batches the upgrade check runs on: s1 with one user, alone or with s2 and
\* its two users, every server successfully probed.
UpgradeInfos ==
    { ServerInfoParse("Synapse", "1.41.0").info,
      ServerInfoParse("Synapse", "1.42.0rc2").info,
      ServerInfoParse("Synapse", "1.66.0").info,
      ServerInfoParse("Synapse", "1.64.0.dev3").info,
      ServerInfoParse("Dendrite", "0.8.6").info,
      ServerInfoParse("Conduit", "0.4.0").info,
      ServerInfoParse("construct", "0.8").info,
      ServerInfoParse("Catalyst", "0.1.0").info,
      ServerInfoParse("Foo", "1.0").info }

UsersOf ==
    [s1 |-> << "@a:s1" >>, s2 |-> << "@a:s2", "@b:s2" >>, s3 |-> << "@a:s3" >>]

Probed(keys, infos) ==
    [ servers |-> [s \in DOMAIN infos |-> UsersOf[s]], versions |-> infos,
      vkeys |-> keys, errors |-> EmptyMap, ekeys |-> << >>, event_id |-> NoRef ]

UpgradeBatches ==
    { Probed(<< "s1" >>, [s \in {"s1"} |-> a]) : a \in UpgradeInfos }
    \cup { Probed(<< "s1", "s2" >>, [s \in {"s1", "s2"} |-> IF s = "s1" THEN a ELSE b]) :
               a \in UpgradeInfos, b \in UpgradeInfos }

UpgradeRoomVersions == {"1", "8", "9", "10"}

UpgradeCalls ==
    { [fn |-> "upgrade", args |-> [cache |-> c, room_version |-> v]] :
          c \in UpgradeBatches, v \in UpgradeRoomVersions }

CallUpgrade == Apply("upgrade", UpgradeCounts(call.args.cache, call.args.room_version))

\* Tables latest_known_version can hold: the one of the module, one with
\* older releases, one that also lists Catalyst, and an empty one.
LatestTables ==
    { latest_known_version,
      [ Synapse |-> PackagingParse("1.40.0").version,
        Dendrite |-> SemverParse("0.8.0").version,
        Conduit |-> SemverParse("0.3.0").version ],
      [ Synapse |-> PackagingParse("1.65.0").version,
        Catalyst |-> SemverParse("0.0.1").version ],
      [ s \in {} |-> NoVersion ] }

\* The upgrade check in a module whose latest_known_version is `latest`.
UpgradeTableCalls ==
    { [fn |-> "upgrade_table",
       args |-> [latest |-> t, cache |-> c, room_version |-> v]] :
          t \in LatestTables, c \in UpgradeBatches, v \in UpgradeRoomVersions }

CallUpgradeTable ==
    /\ call.fn = "upgrade_table"
    /\ Apply("upgrade_table", UpgradeCountsWith(call.args.latest, call.args.cache,
                                                call.args.room_version))

\* Batches _aggregate_versions runs on: three servers probed in the order
\* s1, s2, s3, with every choice of what each one runs.
SortInfos ==
    { ServerInfoParse("Synapse", "1.60.0").info,
      ServerInfoParse("Synapse", "1.60").info,
      ServerInfoParse("Dendrite", "0.9.0").info,
      ServerInfoParse("Dendrite", "0.9.0+317b101").info,
      ServerInfoParse("Catalyst", "0.1.0").info,
      ServerInfoParse("Catalyst", "0.2.0").info,
      ServerInfoParse("Foo", "1.0").info }

\* The batch R with one more member server, whose probe failed.
WithFailed(R, s) ==
    [R EXCEPT !.servers = [x \in DOMAIN R.servers \cup {s} |-> UsersOf[x]],
              !.errors = [x \in DOMAIN R.errors \cup {s} |->
                             IF x = s THEN "test timed out" ELSE R.errors[x]],
              !.ekeys = Append(@, s)]

\* ... and batches of two servers probed in either order, with a third that
\* failed.
SortBatches ==
    { Probed(<< "s1", "s2", "s3" >>, infos) : infos \in [{"s1", "s2", "s3"} -> SortInfos] }
    \cup { WithFailed(Probed(keys, infos), "s3") :
               keys \in {<< "s1", "s2" >>, << "s2", "s1" >>},
               infos \in [{"s1", "s2"} -> SortInfos] }

\* The order of the keys of `servers`, in which gather starts the probes of a
\* batch (line 381): the member list names s1, s2 and s3 in this order.
MemberOrder == << "s1", "s2", "s3" >>

\* The Results R after a retest of its server s has ended with outcome o: the
\* entry of s is popped from versions, or else from errors (lines 507-513),
\* and the outcome is entered (lines 522-531).
Popped(R, s) ==
    IF s \in DOMAIN R.versions
    THEN [R EXCEPT !.versions = Pop(@, s),
                   !.vkeys = PopKeys(@, Pop(R.versions, s), s)]
    ELSE [R EXCEPT !.errors = Pop(@, s),
                   !.ekeys = PopKeys(@, Pop(R.errors, s), s)]

Retested(R, s, o) == Record(Popped(R, s), s, o)

\* The order in which the probes of the batch R, as _test_all left it, ended:
\* each probe enters its server when it ends (lines 373-379).  Where the
\* failed probes ended among the others is not kept by the code and does
\* not matter to the groups; they are put last.
EndedOrder(R) == R.vkeys \o R.ekeys

\* A call of _aggregate_versions (line 404) on a Results object together with
\* what happened to the object before: `started` is the order in which the
\* probes of its batch were started, `first_ended` the order in which they
\* ended, `last_ended` the order in which the latest probe of each server
\* ended (a retest probes its server once more).
AggregateCall(R, first_ended, last_ended) ==
    [ fn |-> "_aggregate_versions", args |-> [results |-> R],
      probes |-> [started |-> MemberOrder, first_ended |-> first_ended,
                  last_ended |-> last_ended] ]

\* _aggregate_versions on the batches as _test_all left them, and on those
\* with a failed server after one retest of any of their servers that found
\* any ServerInfo.
AggregateCalls ==
    { AggregateCall(c, EndedOrder(c), EndedOrder(c)) : c \in SortBatches }
    \cup { AggregateCall(Retested(c, s, [kind |-> "ok", info |-> info, msg |-> ""]),
                         EndedOrder(c), Append(KeysPop(EndedOrder(c), s), s)) :
               c \in { b \in SortBatches : b.ekeys /= << >> },
               s \in {"s1", "s2", "s3"}, info \in SortInfos }

CallAggregate == Apply("_aggregate_versions", AggregateVersions(call.args.results))

\* The key of line 199, which is not ASCII (in the source as it is: U+00E2
\* U+2030 U+00A0): a string of TLA+ holds ASCII only, so the word is written
\* as the escaped literal of Python.
NotEqualSign == "\\u00e2\\u2030\\u00a0"

\* op_map (lines 188-199) as a function from its keys to the name of the
\* comparison.
op_map ==
    "=" :> "eq" @@ "==" :> "eq" @@ "===" :> "eq" @@ ">" :> "gt" @@ ">=" :> "ge"
    @@ "<" :> "lt" @@ "<=" :> "le" @@ "!=" :> "ne" @@ "!==" :> "ne"
    @@ NotEqualSign :> "ne"

\* parse_operator (lines 204-205): op_map.get(val), "None" for None.
parse_operator(val) == Get(op_map, val, "None")

\* The comparisons of the operator module on two version values, and the
\* lambda of line 676 ("any").
Compare(operator, a, b) ==
    CASE operator = "eq" -> VersionValueEq(a, b)
      [] operator = "ne" -> ~VersionValueEq(a, b)
      [] operator = "lt" -> VersionValueLt(a, b)
      [] operator = "le" -> ~VersionValueLt(b, a)
      [] operator = "gt" -> VersionValueLt(b, a)
      [] operator = "ge" -> ~VersionValueLt(a, b)
      [] operator = "any" -> TRUE

\* An operator that, when none is given, lets every version through.
OperatorOrAny(operator) == IF operator = "None" THEN "any" ELSE operator

\* lines 673-674: `if not operator: operator = op.eq`
OperatorOrEq(operator) == IF operator = "None" THEN "eq" ELSE operator

\* match (lines 669-701) once the batch is there: the servers it lists with
\* its counters, or the reply of the parser's ValueError.  version is ""
\* when the command has none.
Matches(cache, software, operator, version) ==
    LET parsed == ServerInfoParse(software, version)
        want_info == IF version = "" THEN [software |-> software, version |-> NoVersion]
                     ELSE parsed.info
        test == IF version = "" THEN "any" ELSE OperatorOrEq(operator)
        matches == SelectSeq(cache.vkeys,
                       LAMBDA s : /\ Lower(cache.versions[s].software) = Lower(want_info.software)
                                  /\ Compare(test, cache.versions[s].version, want_info.version))
    IN
    IF version /= "" /\ parsed.kind /= "ok"
    THEN [kind |-> parsed.kind, matches |-> << >>, matched_users |-> 0,
          matched_servers |-> 0]
    ELSE [kind |-> "reply", matches |-> matches,
          matched_users |-> CountUsers(cache, matches),
          matched_servers |-> Len(matches)]

\* Batches the filter runs on, what it is asked for, and the operator word
\* of the command ("": none).
MatchBatches ==
    { Probed(<< "s1", "s2", "s3" >>,
             [ s1 |-> ServerInfoParse("Synapse", "1.60.0").info,
               s2 |-> ServerInfoParse("Synapse", "1.59.0").info,
               s3 |-> ServerInfoParse("Dendrite", "0.9.0").info ]),
      Probed(<< "s1", "s2" >>,
             [ s1 |-> ServerInfoParse("Foo", "1.0").info,
               s2 |-> ServerInfoParse("Dendrite", "1.60.0").info ]) }

MatchSoftware == {"Synapse", "synapse", "Dendrite", "Foo"}
MatchOperators == {""} \cup DOMAIN op_map
MatchVersions == {"", "1.60.0", "1.60", "1.60.0a1", "1.59.0", "0.9.0", "1.0", "latest"}

MatchCalls ==
    { [fn |-> "match",
       args |-> [cache |-> c, software |-> sw, word |-> w, version |-> v]] :
          c \in MatchBatches, sw \in MatchSoftware, w \in MatchOperators,
          v \in MatchVersions }

CallMatch ==
    Apply("match", Matches(call.args.cache, call.args.software,
                           parse_operator(call.args.word), call.args.version))

\* The classification at the end of retest (lines 539-554) on its own:
\* previous and new version, each a ServerInfo or None, and the new error.
StatusInfos ==
    { ServerInfoParse("Synapse", "1.59.0").info,
      ServerInfoParse("Synapse", "1.60").info,
      ServerInfoParse("synapse", "1.60.0 (b=master,abc)").info,
      ServerInfoParse("Dendrite", "0.9.0").info,
      ServerInfoParse("Foo", "1.0").info,
      ServerInfoParse("Foo", "2.0").info }

StatusCalls ==
    { [fn |-> "status",
       args |-> [prev_version |-> pv, new_version |-> nv,
                 new_error |-> IF nv = NoneInfo THEN "test timed out" ELSE NoneErr]] :
          pv \in StatusInfos \cup {NoneInfo},
          nv \in StatusInfos \cup {NoneInfo} }

\* new_version is set exactly when the probe gave no error (lines 519-531).
CallStatus ==
    /\ call.fn = "status"
    /\ Apply("status", Status(call.args.prev_version, call.args.new_version,
                              call.args.new_error))

\* The pairs of version values that upgrade orders in a module whose
\* latest_known_version is `latest`: each server's version with the minimum
\* of its software (line 153) and, for an outdated server of listed
\* software, the latest known version with the server's (line 158), which
\* `or` (line 616) evaluates until one is found to be newer.
UpgradeCompared(latest, cache, room_version) ==
    LET entry(s) == Get(minimum_version[cache.versions[s].software], room_version, False)
        outdated == SelectSeq(cache.vkeys,
                        LAMBDA s : UpgradeClass(cache.versions[s], room_version) = "outdated")
        asked == { k \in 1..Len(outdated) :
                       \A j \in 1..(k - 1) : ~IsUnknownIn(latest, cache.versions[outdated[j]]) }
    IN
    { << cache.versions[s].version, entry(s).version >> :
          s \in { x \in DOMAIN cache.versions :
                     /\ cache.versions[x].software \in DOMAIN minimum_version
                     /\ entry(x).kind = "version" } }
    \cup
    { << latest[cache.versions[outdated[k]].software], cache.versions[outdated[k]].version >> :
          k \in { x \in asked : cache.versions[outdated[x]].software \in DOMAIN latest } }

\* The pairs of version values that the call of c orders with `<`, `>=` or
\* the operator of match: in ServerInfo.__lt__ under the sort (line 167), in
\* is_new_enough (line 153) and is_unknown (line 158) under upgrade, in the
\* filter of match (lines 685-687) and in the status of retest (line 546).
Compared(c) ==
    LET a == c.args IN
    CASE c.fn = "_aggregate_versions" ->
             { << p[1].info.version, p[2].info.version >> :
                   p \in { q \in ListSortPairs(Reverse(ByVersion(a.results, 1, << >>))) :
                              /\ ~InfoEq(q[1].info, q[2].info)
                              /\ q[1].info.software = q[2].info.software } }
      [] c.fn = "upgrade" ->
             UpgradeCompared(latest_known_version, a.cache, a.room_version)
      [] c.fn = "upgrade_table" ->
             UpgradeCompared(a.latest, a.cache, a.room_version)
      [] c.fn = "match" ->
             IF a.version = "" \/ ServerInfoParse(a.software, a.version).kind /= "ok"
             THEN {}
             ELSE { << a.cache.versions[s].version,
                       ServerInfoParse(a.software, a.version).info.version >> :
                        s \in { x \in DOMAIN a.cache.versions :
                                   Lower(a.cache.versions[x].software)
                                       = Lower(ServerInfoParse(a.software, a.version)
                                                   .info.software) } }
      [] c.fn = "status" ->
             IF /\ a.new_error = NoneErr
                /\ a.prev_version /= NoneInfo
                /\ ~InfoEq(a.prev_version, a.new_version)
                /\ a.prev_version.software = a.new_version.software
             THEN { << a.prev_version.version, a.new_version.version >> }
             ELSE {}
      [] OTHER -> {}

Calls ==
    TestCalls \cup UpgradeCalls \cup AggregateCalls \cup MatchCalls \cup StatusCalls
         \cup UpgradeTableCalls

InitCalls == NoRequests /\ call \in Calls /\ ret = NoRet

NextCalls ==
    \/ CallTest
    \/ CallUpgrade
    \/ CallAggregate
    \/ CallMatch
    \/ CallStatus
    \/ CallUpgradeTable

SpecCalls == InitCalls /\ [][NextCalls]_vars
----------------------------------------------------------------------------
\* Properties of the single-flight marker (Spec)

NeedsResults(i) ==
    \/ req[i].kind = "match"
    \/ req[i].kind = "upgrade" /\ req[i].arg \in known_room_versions

\* Request i runs the first step of its handler.
Starts(i) == pc[i] = "start" /\ pc'[i] /= "start"

\* A _servers task of room r has been created and has not ended.
BatchRunningIn(r) ==
    \E t \in Reqs : TaskRunning(t) /\ req[t].room = r

C1_OneBatch ==
    \A t, u \in Reqs :
        TaskRunning(t) /\ TaskRunning(u) /\ req[t].room = req[u].room => t = u

C1_Rejected ==
    \A i \in Reqs :
        Starts(i) /\ tests_in_progress[req[i].room] /= NoRef =>
            /\ tpc'[i] = "none"
            /\ req[i].kind = "servers" =>
                   /\ pc'[i] = "reply"
                   /\ replied'[i] = "There is already a test in progress."

\* C1: at most one _servers task runs per room at any time; a request that
\* starts while its room has an in-progress marker creates no task, and a
\* `servers` request is then answered 'There is already a test in progress.'
C1_SingleFlight == [](C1_OneBatch) /\ [][C1_Rejected]_vars

\* A `servers` request was rejected while a batch runs in its room and another
\* batch runs in the other room.
C1_Witness ==
    \E i, t, u \in Reqs :
        /\ replied[i] = "There is already a test in progress."
        /\ TaskRunning(t) /\ req[t].room = req[i].room
        /\ TaskRunning(u) /\ req[u].room /= req[i].room

C2_MarkerHeld ==
    \A t \in Reqs :
        tpc[t] \in {"reply", "load", "edit1", "probing", "gathered", "tested",
                     "edit2", "edited2", "edit2_failed"} =>
            tests_in_progress[req[t].room] = t

C2_Cleared ==
    \A i \in Reqs :
        pc[i] = "await_own" /\ pc'[i] /= "await_own" =>
            /\ tests_in_progress[req[i].room] = i
            /\ tests_in_progress'[req[i].room] = NoRef
            /\ replied'[i] /= "KeyError"

\* C2: the marker of a room names the batch from before its first I/O until
\* the request that started it leaves test_or_wait; when that request goes on
\* (the batch returned or raised) the marker it deletes is its own, the
\* deletion does not fail, and the room has no marker afterwards.
C2_MarkerLifetime == [](C2_MarkerHeld) /\ [][C2_Cleared]_vars

\* The request that started a batch has ended with the batch's exception and
\* no room has a marker.
C2_Witness ==
    \E i \in Reqs :
        /\ pc[i] = "raised"
        /\ tpc[i] = "failed"
        /\ \A r \in Rooms : tests_in_progress[r] = NoRef

C3_NoSecondBatch ==
    \A i \in Reqs :
        Starts(i) /\ NeedsResults(i) /\ BatchRunningIn(req[i].room) =>
            tpc'[i] = "none"

C3_ReadsAwaited ==
    \A i \in Reqs :
        NeedsResults(i) /\ pc[i] = "await" /\ pc'[i] = "reply" =>
            /\ replied'[i] = "report"
            /\ loc'[i].got = loc[i].awaited

C3_AlwaysAwaits ==
    \A i \in Reqs :
        Starts(i) /\ NeedsResults(i) /\ BatchRunningIn(req[i].room) =>
            /\ pc'[i] = "await"
            /\ loc'[i].awaited = tests_in_progress[req[i].room]

C3_AwaitsUnlessCached ==
    \A i \in Reqs :
        LET r == req[i].room IN
        Starts(i) /\ NeedsResults(i) /\ BatchRunningIn(r) =>
            IF caches[r] = NoRef
            THEN /\ pc'[i] = "await"
                 /\ loc'[i].awaited = tests_in_progress[r]
            ELSE /\ pc'[i] = "reply"
                 /\ replied'[i] = "report"
                 /\ loc'[i].got = caches[r]

\* C3 as stated: an upgrade / match request that starts while a batch of its
\* room is running starts no second batch, awaits the running batch, and the
\* result it reads after the await is the one that batch stored.
C3_Original == [][C3_NoSecondBatch /\ C3_AlwaysAwaits /\ C3_ReadsAwaited]_vars

\* C3 amended: such a request starts no second batch; if the room has a
\* stored result (of an earlier batch, or of the running batch once it has
\* stored its result and is still sending its summary) it reports from that
\* result at once without awaiting; otherwise it awaits the running batch,
\* and the result it reads after the await is the one that batch stored.
C3_Amended == [][C3_NoSecondBatch /\ C3_AwaitsUnlessCached /\ C3_ReadsAwaited]_vars

\* An upgrade / match request has awaited another request's batch and
\* reports from the result of that batch.
C3_Witness ==
    \E i \in Reqs :
        /\ NeedsResults(i)
        /\ pc[i] = "reply"
        /\ loc[i].awaited \notin {NoRef, i}
        /\ loc[i].got = loc[i].awaited
        /\ caches[req[i].room] = loc[i].awaited

C4_NoEscape ==
    \A i \in Reqs :
        NeedsResults(i) /\ pc[i] \in {"start", "await", "await_own"} =>
            pc'[i] /= "raised"

C4_ExplicitReply ==
    \A i \in Reqs :
        /\ NeedsResults(i)
        /\ pc[i] \in {"await", "await_own"}
        /\ pc'[i] /= pc[i]
        /\ caches[req[i].room] = NoRef
        => /\ pc'[i] = "reply"
           /\ replied'[i] = "Cache didn't contain test results even after waiting"

\* C4: no exception leaves cached_or_test, and a caller that has awaited the
\* batch and finds no stored result sends the 'Cache didn't contain test
\* results even after waiting' reply, also when the batch raised.
C4_ResultsUnavailable == [][C4_NoEscape /\ C4_ExplicitReply]_vars
----------------------------------------------------------------------------
\* Properties of _test_all (SpecBatch)

\* The error text the handlers of _test_all give to an outcome.
C5_Expected(o) ==
    IF o.kind = "TestError" THEN o.msg
    ELSE IF o.kind = "TimeoutError" THEN "test timed out"
    ELSE "internal plugin error"

C5_Entries ==
    \A t \in Reqs :
        tpc[t] \in {"probing", "gathered", "tested"} =>
            LET R == results[t] IN
            /\ tpc[t] \in {"gathered", "tested"} => pending[t] = {}
            /\ DOMAIN probed[t] = DOMAIN R.servers \ pending[t]
            /\ \A s \in pending[t] :
                   s \notin DOMAIN R.versions /\ s \notin DOMAIN R.errors
            /\ \A s \in DOMAIN R.servers \ pending[t] :
                   IF probed[t][s].kind = "ok"
                   THEN /\ s \in DOMAIN R.versions
                        /\ R.versions[s] = probed[t][s].info
                        /\ s \notin DOMAIN R.errors
                   ELSE /\ s \in DOMAIN R.errors
                        /\ R.errors[s] = C5_Expected(probed[t][s])
                        /\ s \notin DOMAIN R.versions
            /\ Cardinality(DOMAIN R.versions) + Cardinality(DOMAIN R.errors)
                   = Cardinality(DOMAIN R.servers \ pending[t])

C5_NoAbort ==
    \A t \in Reqs : tpc[t] = "probing" => tpc'[t] \in {"probing", "gathered"}

\* C5: while the probes of a batch end, in any order, each server whose probe
\* has ended has exactly one entry, in versions with the returned ServerInfo
\* if the probe succeeded and in errors with the text of its failure if it
\* raised TestError, timed out or raised another exception; the other
\* servers have none; no outcome ends the batch early; and when _test_all
\* returns no probe is pending, so |versions| + |errors| = N.
C5_AllProbesRecorded == [](C5_Entries) /\ [][C5_NoAbort]_vars

\* _test_all has returned for two servers, one probe having raised an
\* unexpected exception and the other having succeeded.
C5_Witness ==
    \E t \in Reqs :
        /\ tpc[t] = "tested"
        /\ DOMAIN results[t].servers = {"s1", "s2"}
        /\ probed[t]["s1"].kind = "Exception"
        /\ probed[t]["s2"].kind = "ok"

----------------------------------------------------------------------------
\* Properties of retest (SpecRetest)

\* Retest i has removed the entry of server s from Results c and has not yet
\* stored the new outcome.
RetestInFlight(i, c, s) ==
    /\ pc[i] \in {"retest_reply", "probe", "probed"}
    /\ loc[i].cache = c
    /\ req[i].arg = s

\* C6: in the Results stored for a room, versions and errors hold only
\* servers of `servers`, no server is in both, and a server in neither has a
\* retest in flight.
C6_ExactlyOneEntry ==
    \A r \in Rooms :
        LET c == caches[r] IN
        c /= NoRef =>
            /\ DOMAIN results[c].versions \cup DOMAIN results[c].errors
                   \subseteq DOMAIN results[c].servers
            /\ DOMAIN results[c].versions \cap DOMAIN results[c].errors = {}
            /\ \A s \in DOMAIN results[c].servers :
                   s \notin DOMAIN results[c].versions \cup DOMAIN results[c].errors
                       => \E i \in Reqs : RetestInFlight(i, c, s)

C7_OneInFlight ==
    \A c \in Reqs, s \in Servers, i, j \in Reqs :
        RetestInFlight(i, c, s) /\ RetestInFlight(j, c, s) => i = j

C7_Rejects ==
    \A i \in Reqs :
        LET c == caches[req[i].room] IN
        /\ Starts(i)
        /\ req[i].kind = "retest"
        /\ c /= NoRef
        /\ \E j \in Reqs : RetestInFlight(j, c, req[i].arg)
        => /\ pc'[i] = "reply"
           /\ replied'[i] = "That server seems to be in the progress of being retested."
           /\ loc'[i].cache = NoRef
           /\ results' = results

\* C7: at most one retest per server and Results is in flight, and a retest
\* request for a server whose retest is in flight is answered 'That server
\* seems to be in the progress of being retested.' and changes nothing.
C7_NoDuplicateRetest == [](C7_OneInFlight) /\ [][C7_Rejects]_vars

\* A retest request was rejected while a retest of the same server is in flight.
C7_Witness ==
    \E i, j \in Reqs :
        /\ pc[i] = "reply"
        /\ replied[i] = "That server seems to be in the progress of being retested."
        /\ RetestInFlight(j, caches[req[i].room], req[i].arg)

C8_Texts == {"No cached results.", "That server isn't in the previous results."}

C8_RejectStep ==
    \A i \in Reqs :
        LET r == req[i].room IN
        /\ Starts(i)
        /\ req[i].kind = "retest"
        /\ (caches[r] = NoRef \/ req[i].arg \notin DOMAIN results[caches[r]].servers)
        => /\ pc'[i] = "reply"
           /\ replied'[i] = IF caches[r] = NoRef
                            THEN "No cached results."
                            ELSE "That server isn't in the previous results."
           /\ UNCHANGED << results, caches, lock, lock_waiters, summary_edits >>

C8_ThenEnds ==
    \A i \in Reqs :
        replied[i] \in C8_Texts /\ pc'[i] /= pc[i] =>
            /\ Final(pc'[i])
            /\ UNCHANGED << results, caches, lock, lock_waiters >>

C8_Idle ==
    \A i \in Reqs :
        replied[i] \in C8_Texts =>
            pc[i] = "reply" /\ summary_edits[i] = 0 /\ loc[i].cache = NoRef

\* C8: a retest request for a room without stored Results, or for a server
\* that is not in the stored Results, sends the matching reply and does
\* nothing else: no Results object, lock or cache entry changes in any of its
\* steps, it starts no probe and sends no summary edit.
C8_RejectedRetest == [](C8_Idle) /\ [][C8_RejectStep /\ C8_ThenEnds]_vars

\* Both rejections are being sent.
C8_Witness ==
    \E i, j \in Reqs :
        /\ replied[i] = "No cached results."
        /\ replied[j] = "That server isn't in the previous results."

C9_Changed(i) ==
    \/ loc[i].prev_error /= loc[i].new_error
    \/ ~InfoEq(loc[i].prev_version, loc[i].new_version)

\* C9: a retest whose new outcome equals the previous one sends no summary
\* edit; one whose outcome differs sends exactly one, after its outcome is
\* stored and before the edit of its own reply.
C9_EditIffChanged ==
    \A i \in Reqs :
        req[i].kind = "retest" =>
            /\ pc[i] \in {"start", "reply", "retest_reply", "probe", "probed"}
                   => summary_edits[i] = 0
            /\ pc[i] = "lock_wait" => C9_Changed(i) /\ summary_edits[i] = 0
            /\ pc[i] \in {"summary_edit", "summary_edited"}
                   => C9_Changed(i) /\ summary_edits[i] = 1
            /\ pc[i] = "status_edit"
                   => summary_edits[i] = IF C9_Changed(i) THEN 1 ELSE 0

\* One retest found another error text and has sent its summary edit, another
\* found the version unchanged and has sent none.
C9_Witness ==
    \E i, j \in Reqs :
        /\ pc[i] = "status_edit"
        /\ loc[i].prev_error /= NoneErr
        /\ loc[i].new_error /= NoneErr
        /\ summary_edits[i] = 1
        /\ pc[j] = "status_edit"
        /\ loc[j].prev_version /= NoneInfo
        /\ loc[j].new_version = loc[j].prev_version
        /\ summary_edits[j] = 0

\* The coroutines whose edit of the summary message of Results c is being sent.
SummaryWriters(c) ==
    { co \in {TaskCo(c)} : tpc[c] = "edit2" }
    \cup { ReqCo(i) : i \in { j \in Reqs : pc[j] = "summary_edit" /\ loc[j].cache = c } }

\* C10: at most one edit of the summary message of a batch is being sent at
\* any time.
C10_OneWriter == \A c \in Reqs : Cardinality(SummaryWriters(c)) <= 1

\* The statuses whose condition, as a completed retest is specified, holds for
\* the previous outcome (pv, pe) and the new outcome (nv, ne).
C11_Classes(pv, pe, nv, ne) ==
    { st \in {"still on", "updated", "downgraded", "switched", "failed", "back up"} :
        \/ st = "failed" /\ ne /= NoneErr
        \/ /\ ne = NoneErr
           /\ pe = NoneErr
           /\ \/ st = "still on" /\ InfoEq(pv, nv)
              \/ st = "updated" /\ pv.software = nv.software
                                /\ VersionValueLt(pv.version, nv.version)
              \/ st = "downgraded" /\ pv.software = nv.software
                                   /\ VersionValueLt(nv.version, pv.version)
              \/ st = "switched" /\ pv.software /= nv.software
        \/ st = "back up" /\ ne = NoneErr /\ pe /= NoneErr }

\* C11: the status a retest reports in the edit of its own reply is the one
\* status whose condition holds for its previous and new outcome (still on,
\* updated, downgraded, switched, failed, back up), and a retest that
\* reports 'back up' has sent an edit of the summary.
C11_StatusByOutcomes ==
    \A i \in Reqs :
        pc[i] = "status_edit" =>
            /\ C11_Classes(loc[i].prev_version, loc[i].prev_error,
                           loc[i].new_version, loc[i].new_error) = {replied[i]}
            /\ replied[i] = "back up" => summary_edits[i] = 1

\* One retest reports a switch to another software while another reports a
\* server that is back up, after its summary edit.
C11_Witness ==
    \E i, j \in Reqs :
        /\ pc[i] = "status_edit" /\ replied[i] = "switched"
        /\ pc[j] = "status_edit" /\ replied[j] = "back up"
        /\ summary_edits[j] = 1

----------------------------------------------------------------------------
\* Properties of the published messages (SpecRetest)

\* C12: a batch task sends one new message, the edits it sends (progress
\* notice, summary) replace that message, the Results stored for a room
\* carry the event id of the message of their batch, and the summary a retest
\* sends is an edit of the message of the batch whose Results it took.
C12_EditsInPlace ==
    /\ \A t \in Reqs :
           /\ tloc[t].posts = IF TaskRunning(t) /\ tpc[t] /= "start" THEN 1 ELSE 0
           /\ tpc[t] \in {"load", "edit1", "probing", "gathered", "tested",
                        "edit2", "edited2", "edit2_failed"}
                  => tloc[t].event_id = EventOfTask(t)
           /\ tpc[t] \in {"edit1", "edit2"} => tloc[t].target = EventOfTask(t)
           /\ tpc[t] \notin {"edit1", "edit2"} => tloc[t].target = NoRef
    /\ \A r \in Rooms :
           caches[r] /= NoRef => results[caches[r]].event_id = EventOfTask(caches[r])
    /\ \A i \in Reqs :
           pc[i] = "summary_edit" =>
               /\ loc[i].content.kind = "results"
               /\ loc[i].target = EventOfTask(loc[i].cache)
               /\ replied[i] = "Re-testing"

\* A retest is sending its summary as an edit of the message of the stored
\* batch, on which the batch's own summary has arrived.
C12_Witness ==
    \E i \in Reqs :
        /\ pc[i] = "summary_edit"
        /\ caches[req[i].room] = loc[i].cache
        /\ published[loc[i].target].kind = "results"
        /\ published[loc[i].target] /= loc[i].content
----------------------------------------------------------------------------
\* Properties of _test (SpecCalls)

\* The response of the _test call that has returned.
TestedResult == call.args.result

\* The response has no Version object with a name in it.
NameAbsent(result) ==
    \/ "Version" \notin DOMAIN result
    \/ result["Version"] = Null
    \/ "name" \notin DOMAIN result["Version"]

\* The response has no Version object with a version string in it.
VersionAbsent(result) ==
    \/ "Version" \notin DOMAIN result
    \/ result["Version"] = Null
    \/ "version" \notin DOMAIN result["Version"]

TestReturned == call.fn = "_test" /\ ret.done

\* C13 as stated: when FederationOK is true and the software name or the
\* version string is absent from the response, _test ends with the failure
\* "server not responding to version requests".
C13_Original ==
    (TestReturned /\ TestedResult["FederationOK"]
         /\ (NameAbsent(TestedResult) \/ VersionAbsent(TestedResult)))
        => ret.value = Raised("TestError", NotResponding)

\* C13 as amended: when FederationOK is true, _test ends with the failure
\* "server not responding to version requests" exactly when the response has
\* no Version key or its Version object has no name key; when the name is
\* there and only the version string is absent, _test goes on with
\* "unknown version", which for software without a version parser is the
\* success "<name> unknown version".
C13_Amended ==
    (TestReturned /\ TestedResult["FederationOK"]) =>
        /\ ret.value = Raised("TestError", NotResponding)
               <=> \/ "Version" \notin DOMAIN TestedResult
                   \/ /\ TestedResult["Version"] /= Null
                      /\ "name" \notin DOMAIN TestedResult["Version"]
        /\ ( /\ ~NameAbsent(TestedResult)
             /\ VersionAbsent(TestedResult)
             /\ Lower(TestedResult["Version"]["name"])
                    \notin {"synapse", "dendrite", "conduit", "catalyst"} )
            => /\ ret.value.kind = "ok"
               /\ InfoStr(ret.value.info)
                      = TestedResult["Version"]["name"] \o " unknown version"

\* A response with FederationOK true that names the software and no version
\* has been tested, and _test returned a ServerInfo.
C13_Witness ==
    /\ TestReturned
    /\ TestedResult["FederationOK"]
    /\ ~NameAbsent(TestedResult)
    /\ VersionAbsent(TestedResult)
    /\ ret.value.kind = "ok"
----------------------------------------------------------------------------
\* Properties of the upgrade check (SpecCalls)

UpgradeReturned == call.fn = "upgrade" /\ ret.done

\* version meets or exceeds minimum: it is greater, or the two are equal.
Meets(version, minimum) ==
    VersionValueLt(minimum, version) \/ VersionValueEq(version, minimum)

\* The servers of cache the claim puts in each class for room version R.
ClaimedUnknown(cache) ==
    { s \in DOMAIN cache.versions :
          cache.versions[s].software \notin DOMAIN minimum_version }

ClaimedUpToDate(cache, R) ==
    { s \in DOMAIN cache.versions \ ClaimedUnknown(cache) :
          LET row == minimum_version[cache.versions[s].software] IN
          /\ R \in DOMAIN row
          /\ \/ row[R] = True
             \/ row[R].kind = "version" /\ Meets(cache.versions[s].version, row[R].version) }

ClaimedOutdated(cache, R) ==
    (DOMAIN cache.versions \ ClaimedUnknown(cache)) \ ClaimedUpToDate(cache, R)

Synapse_1_41_0 == ServerInfoParse("Synapse", "1.41.0").info

\* C14: the upgrade check counts every successfully probed server in
\* exactly one class: unknown when its software has no row in
\* minimum_version, else up to date iff the row's entry for R is True or a
\* minimum its version meets or exceeds, else outdated; Synapse 1.41.0 is
\* outdated for R = 9 and up to date for R = 8.
C14_UpgradeClasses ==
    UpgradeReturned =>
        LET cache == call.args.cache
            R == call.args.room_version
            out == ret.value
            listed == { out.outdated_matches[k] : k \in 1..Len(out.outdated_matches) }
        IN
        /\ out.unknown_servers = Cardinality(ClaimedUnknown(cache))
        /\ out.up_to_date_servers = Cardinality(ClaimedUpToDate(cache, R))
        /\ out.outdated_servers = Cardinality(ClaimedOutdated(cache, R))
        /\ listed = ClaimedOutdated(cache, R)
        /\ out.unknown_servers + out.up_to_date_servers + out.outdated_servers
               = Cardinality(DOMAIN cache.versions)
        /\ out.unknown_users + out.up_to_date_users + out.outdated_users
               = CountUsers(cache, cache.vkeys)
        /\ \A s \in DOMAIN cache.versions :
               cache.versions[s] = Synapse_1_41_0 =>
                   /\ R = "9" => s \in listed
                   /\ R = "8" => s \notin listed /\ s \in ClaimedUpToDate(cache, R)

\* The check for room version 9 has counted Synapse 1.41.0 as outdated and
\* another server, at the minimum itself, as up to date.
C14_Witness ==
    /\ UpgradeReturned
    /\ call.args.room_version = "9"
    /\ call.args.cache.versions["s1"] = Synapse_1_41_0
    /\ ret.value.outdated_matches = << "s1" >>
    /\ ret.value.up_to_date_servers = 1
    /\ "s2" \in DOMAIN call.args.cache.versions
    /\ call.args.cache.versions["s2"] = ServerInfoParse("Synapse", "1.42.0rc2").info
----------------------------------------------------------------------------
\* Properties of _aggregate_versions (SpecCalls)

AggregateReturned == call.fn = "_aggregate_versions" /\ ret.done

\* C15: the groups _aggregate_versions returns are in descending order: of
\* two groups of the same software the greater version comes first, and of
\* two groups whose software differs in server_order priority the higher
\* priority comes first.
C15_Descending ==
    AggregateReturned =>
        \A j \in 1..Len(ret.value), k \in 1..Len(ret.value) :
            j < k =>
                LET a == ret.value[j].info
                    b == ret.value[k].info
                IN
                /\ a.software = b.software => VersionLt(b, a)
                /\ server_order(a.software) /= server_order(b.software)
                       => server_order(a.software) > server_order(b.software)
----------------------------------------------------------------------------
\* Properties of the match filter (SpecCalls)

MatchReturned == call.fn = "match" /\ ret.done

\* `version <word> wanted` as the claim reads the operator word, equality
\* when there is none.
Satisfies(version, word, wanted) ==
    LET less == VersionValueLt(version, wanted)
        more == VersionValueLt(wanted, version)
    IN
    CASE word \in {"", "=", "==", "==="} -> ~less /\ ~more
      [] word \in {"!=", "!==", NotEqualSign} -> less \/ more
      [] word = "<" -> less
      [] word = "<=" -> less \/ (~less /\ ~more)
      [] word = ">" -> more
      [] word = ">=" -> more \/ (~less /\ ~more)

\* C16: the filter returns exactly the successfully probed servers whose
\* software equals the requested one ignoring case and whose version
\* satisfies the operator, equality when a version comes without operator,
\* every server of the software when no version is given; Synapse >= 1.60.0
\* over Synapse 1.60.0, Synapse 1.59.0 and Dendrite 0.9.0 returns the first.
C16_MatchFilter ==
    (MatchReturned /\ ret.value.kind = "reply") =>
        LET cache == call.args.cache
            listed == { ret.value.matches[k] : k \in 1..Len(ret.value.matches) }
            wanted == ServerInfoParse(call.args.software, call.args.version).info
        IN
        /\ listed =
               { s \in DOMAIN cache.versions :
                     /\ Lower(cache.versions[s].software) = Lower(call.args.software)
                     /\ \/ call.args.version = ""
                        \/ Satisfies(cache.versions[s].version, call.args.word,
                                     wanted.version) }
        /\ ret.value.matched_servers = Cardinality(listed)
        /\ ( /\ Len(cache.vkeys) = 3
             /\ call.args.software = "Synapse"
             /\ call.args.word = ">="
             /\ call.args.version = "1.60.0" )
            => ret.value.matches = << "s1" >>

\* The filter has answered `Synapse 1.59.0`, a version without an operator,
\* with the one server that runs Synapse 1.59.0.
C16_Witness ==
    /\ MatchReturned
    /\ Len(call.args.cache.vkeys) = 3
    /\ call.args.software = "Synapse"
    /\ call.args.word = ""
    /\ call.args.version = "1.59.0"
    /\ ret.value.matches = << "s2" >>
----------------------------------------------------------------------------
\* Properties of the summary of the stored batch (SpecRetest)

\* Room r is quiet: no batch of it is running, no retest of it has been
\* received and not ended, so no edit of a summary is pending.
Quiet(r) ==
    /\ ~BatchRunningIn(r)
    /\ \A i \in Reqs : req[i].room = r => req[i].kind /= "retest"

\* C17: whenever a room is quiet, the latest published content of the
\* summary message of its stored batch is _format_results of that batch.
C17_SummaryCurrent ==
    \A r \in Rooms :
        (Quiet(r) /\ caches[r] /= NoRef) =>
            LET c == caches[r] IN
            published[results[c].event_id]
                = [kind |-> "results", body |-> FormatResults(results[c])]

\* Retest i stores the outcome of its probe in this step (lines 522-531).
RetestWrites(i) == pc[i] = "probed" /\ pc'[i] /= "probed"

\* Retest i starts the edit of the summary message in this step (line 537).
RetestRepublishes(i) == pc[i] /= "summary_edit" /\ pc'[i] = "summary_edit"

\* C18: a retest stores its outcome in, and republishes the summary of, the
\* batch that is stored for the room at that moment, never one that a newer
\* batch has replaced in caches.
C18_StoredBatchOnly ==
    [][\A i \in Reqs :
          (RetestWrites(i) \/ RetestRepublishes(i))
              => loc[i].cache = caches[req[i].room]]_vars
----------------------------------------------------------------------------
\* Progress of a retest (SpecRetest)

\* The handler of retest i has removed the entry of its server (lines
\* 507-516) and has not ended.
Accepted(i) ==
    /\ req[i].kind = "retest"
    /\ pc[i] \in {"retest_reply", "probe", "probed", "lock_wait", "summary_edit",
                  "summary_edited", "status_edit"}

\* The handler of request i ends in this step, by returning or by raising.
Ends(i) == ~Final(pc[i]) /\ Final(pc'[i])

\* Another accepted retest of the same server of the same batch is running.
RetestedAgain(i) ==
    \E j \in Reqs \ {i} :
        Accepted(j) /\ req[j].arg = req[i].arg /\ loc[j].cache = loc[i].cache

\* C19: every accepted retest finishes: when its handler ends, the server
\* whose entry it removed is in exactly one of versions and errors of the
\* stored batch again (unless a later retest has removed it anew), so that
\* the server does not stay rejected as being retested.
C19_RetestFinishes ==
    [][\A i \in Reqs :
          ( /\ Accepted(i)
            /\ Ends(i)
            /\ caches'[req[i].room] = loc[i].cache
            /\ ~RetestedAgain(i) ) =>
              LET R == results'[loc[i].cache] IN
              (req[i].arg \in DOMAIN R.versions) /= (req[i].arg \in DOMAIN R.errors)]_vars
----------------------------------------------------------------------------
\* Properties of the batch lock (SpecRetest)

\* The probe of retest i is in flight.
Probing(i) == req[i].kind = "retest" /\ pc[i] = "probe"

Waiting(c) == { lock_waiters[c][k] : k \in 1..Len(lock_waiters[c]) }

\* C20: the lock of a batch is held only for the summary publish step: its
\* holder is a retest sending the summary edit of that batch or about to
\* leave the block; a retest whose probe is in flight neither holds a lock
\* nor waits for one, and a retest waits only for a holder in the publish
\* step (or has been woken by its release).
C20_LockOnlyToPublish ==
    /\ \A c \in Reqs :
           lock[c] /= NoRef =>
               /\ pc[lock[c]] \in {"summary_edit", "summary_edited"}
               /\ loc[lock[c]].cache = c
    /\ \A i \in Reqs :
           Probing(i) => \A c \in Reqs : lock[c] /= i /\ i \notin Waiting(c)
    /\ \A c \in Reqs :
           \A i \in Waiting(c) :
               /\ pc[i] = "lock_wait"
               /\ lock[c] /= NoRef \/ \E k \in 1..Len(ready) : ready[k] = ReqCo(i)

\* The probes of two retests of different servers of the same batch are in
\* flight at the same time.
C20_Witness ==
    \E i, j \in Reqs :
        /\ i /= j
        /\ Probing(i)
        /\ Probing(j)
        /\ loc[i].cache = loc[j].cache
        /\ req[i].arg /= req[j].arg
----------------------------------------------------------------------------
\* Properties of the groups of _aggregate_versions (SpecCalls)

\* The servers of R with ServerInfo info, in the order of their entries in
\* R.versions.
ServersWith(R, info) == SelectSeq(R.vkeys, LAMBDA s : InfoKey(R.versions[s], info))

\* The member lists of the servers ss of R, one after the other.
RECURSIVE MembersOf(_, _)
MembersOf(R, ss) ==
    IF ss = << >> THEN << >> ELSE R.servers[Head(ss)] \o MembersOf(R, Tail(ss))

RECURSIVE SumCounts(_)
SumCounts(groups) ==
    IF groups = << >> THEN 0 ELSE Head(groups).server_count + SumCounts(Tail(groups))

\* The servers of `order` that are in R.versions with ServerInfo info, in
\* that order.
InOrder(R, order, info) ==
    SelectSeq(order, LAMBDA s : s \in DOMAIN R.versions /\ InfoKey(R.versions[s], info))

\* The groups are exactly one per distinct ServerInfo among the successfully
\* probed servers (two ServerInfo being the same when they are one key of a
\* dict); the server count of a group is the number of servers with that
\* ServerInfo; no user of a failed server is in a group, and the server
\* counts sum to the size of versions.
Grouped(R, groups) ==
    /\ \A k \in 1..Len(groups) : \E s \in DOMAIN R.versions : R.versions[s] = groups[k].info
    /\ \A s \in DOMAIN R.versions :
           \E k \in 1..Len(groups) : InfoKey(R.versions[s], groups[k].info)
    /\ \A j, k \in 1..Len(groups) : InfoKey(groups[j].info, groups[k].info) => j = k
    /\ \A k \in 1..Len(groups) :
           /\ groups[k].server_count
                  = Cardinality({ s \in DOMAIN R.versions :
                                     InfoKey(R.versions[s], groups[k].info) })
           /\ \A s \in DOMAIN R.errors :
                  \A u \in 1..Len(R.servers[s]) :
                      \A m \in 1..Len(groups[k].users) :
                          groups[k].users[m] /= R.servers[s][u]
    /\ SumCounts(groups) = Cardinality(DOMAIN R.versions)

\* C21 as stated: _aggregate_versions yields exactly one group per distinct
\* ServerInfo among the successfully probed servers, with the count of its
\* servers, and the user list of a group is the member lists of its servers
\* in the order the servers were first probed, whether that is read as the
\* order in which the probes of the batch were started or as the order in
\* which they ended; failed servers are in no group, so the server counts
\* sum to the size of versions.
C21_Original ==
    AggregateReturned =>
        LET R == call.args.results
            groups == ret.value
        IN
        /\ Grouped(R, groups)
        /\ \E order \in {call.probes.started, call.probes.first_ended} :
               \A k \in 1..Len(groups) :
                   groups[k].users = MembersOf(R, InOrder(R, order, groups[k].info))

\* C21 amended: _aggregate_versions yields exactly one group per distinct
\* ServerInfo among the successfully probed servers, with the count of its
\* servers; the user list of a group is the member lists of its servers in
\* the order of their entries in versions, which is the order in which the
\* latest probe of each server ended: a retest moves its server to the end.
\* Failed servers are in no group, so the server counts sum to the size of
\* versions.
C21_Amended ==
    AggregateReturned =>
        LET R == call.args.results
            groups == ret.value
        IN
        /\ Grouped(R, groups)
        /\ \A k \in 1..Len(groups) :
               /\ groups[k].users = MembersOf(R, ServersWith(R, groups[k].info))
               /\ groups[k].users
                      = MembersOf(R, InOrder(R, call.probes.last_ended, groups[k].info))

\* A batch whose probes of s1 and s2 ended in this order with the same
\* ServerInfo, and whose probe of s3 failed, has been grouped after a retest
\* of s1 that found the same ServerInfo again: one group of two servers, the
\* users of s2 before those of s1.
C21_Witness ==
    /\ AggregateReturned
    /\ call.probes.first_ended = << "s1", "s2", "s3" >>
    /\ call.probes.last_ended = << "s2", "s3", "s1" >>
    /\ call.args.results.vkeys = << "s2", "s1" >>
    /\ DOMAIN call.args.results.errors = {"s3"}
    /\ Len(ret.value) = 1
    /\ ret.value[1].server_count = 2
    /\ ret.value[1].users = UsersOf["s2"] \o UsersOf["s1"]
----------------------------------------------------------------------------
\* Properties of the comparisons of versions (SpecCalls)

\* The ServerInfo values the sort of the returned call ranks.
Ranked ==
    IF call.fn = "_aggregate_versions"
    THEN { call.args.results.versions[s] : s \in DOMAIN call.args.results.versions }
    ELSE {}

\* C22: whenever two version values are order-compared (the grouping sort,
\* the update/downgrade classification of a retest, the minimum-version
\* check, the latest-known check and the match filter), both are of the
\* same software family; two ServerInfo of different families are ranked
\* by the server_order priority of their software names only.
C22_SameFamily ==
    ret.done =>
        /\ \A p \in Compared(call) : p[1].scheme = p[2].scheme
        /\ \A a \in Ranked, b \in Ranked :
               a.version.scheme /= b.version.scheme =>
                   InfoLt(a, b) = (server_order(a.software) < server_order(b.software))

\* The filter has compared the version of a server that runs Synapse with
\* the version asked for as `synapse`, and the sort has ranked two families.
C22_Witness ==
    /\ ret.done
    /\ \/ /\ call.fn = "match"
          /\ call.args.software = "synapse"
          /\ Compared(call) /= {}
       \/ /\ call.fn = "_aggregate_versions"
          /\ \E a \in Ranked, b \in Ranked : a.version.scheme /= b.version.scheme
          /\ Compared(call) /= {}
----------------------------------------------------------------------------
\* Properties of the upgrade check under another latest_known_version
\* (SpecCalls)

\* The verdicts of a run of upgrade: every counter and the outdated list,
\* without the flag of the advisory note.
Verdicts(counts) ==
    [ up_to_date_servers |-> counts.up_to_date_servers,
      up_to_date_users |-> counts.up_to_date_users,
      outdated_servers |-> counts.outdated_servers,
      outdated_users |-> counts.outdated_users,
      unknown_servers |-> counts.unknown_servers,
      unknown_users |-> counts.unknown_users,
      outdated_matches |-> counts.outdated_matches ]

\* C23: the up-to-date / outdated / unknown verdict of the upgrade check
\* does not depend on latest_known_version: for the same batch and room
\* version, a run under any other table gives the same verdicts and counts
\* as the run that returned, and the two can differ only in whether the
\* note "Room version support table last updated" is shown.
C23_TableFree ==
    (ret.done /\ call.fn = "upgrade_table") =>
        \A t \in LatestTables :
            Verdicts(UpgradeCountsWith(t, call.args.cache, call.args.room_version))
                = Verdicts(ret.value)

\* A run that returned with an outdated server and with the note, where the
\* run under the table of the module does not show the note.
C23_Witness ==
    /\ ret.done
    /\ call.fn = "upgrade_table"
    /\ ret.value.outdated_servers > 0
    /\ ret.value.may_contain_new_software
    /\ ~UpgradeCounts(call.args.cache, call.args.room_version).may_contain_new_software
----------------------------------------------------------------------------
\* Properties of the failure reason of _parse_error (SpecCalls)

\* The number of addresses the response lists.
Listed(result) ==
    Len(Get(result, "ConnectionErrors", << >>))
        + Len(Get(result, "ConnectionReports", << >>))

\* The TestError of _test gives `reason`, alone or followed by the server's
\* software after " // " (lines 345-350).
ReasonIs(msg, reason) ==
    \/ msg = reason
    \/ /\ Len(msg) >= Len(reason) + 4
       /\ SubSeq(msg, 1, Len(reason) + 4) = reason \o " // "

\* C24: when FederationOK is false and the response lists no address at
\* all, the failure reason of _parse_error is "No server addresses found";
\* "Server couldn't be reached on any address" is given only when at least
\* two addresses are listed and all of them failed to connect.
C24_NoAddresses ==
    (/\ ret.done
     /\ call.fn = "_test"
     /\ ~call.args.result["FederationOK"]
     /\ ret.value.kind = "TestError") =>
        /\ Listed(call.args.result) = 0 =>
               ReasonIs(ret.value.msg, "No server addresses found")
        /\ ReasonIs(ret.value.msg, "Server couldn't be reached on any address") =>
               /\ Listed(call.args.result) >= 2
               /\ Len(Get(call.args.result, "ConnectionErrors", << >>))
                      = Listed(call.args.result)
====
